---- MODULE Spec2Model ----
(***************************************************************************)
(* The transactional block of the TAE storage engine (package tables,      *)
(* block.go): one dataBlock composed of an appendable node, an MVCC handle *)
(* (append nodes, per-column update chains, a delete chain), a primary-key *)
(* index and the block file it is replayed from.                           *)
(*                                                                         *)
(* Row offsets are 0-based as in the source; sequences are 1-based, so the *)
(* key of row r of a buffer `node` is node[r + 1].                         *)
(***************************************************************************)
EXTENDS Integers, Sequences, FiniteSets, TLC

\* ------------------------------------------------------------------ bounds
MaxTxn == 3
BlockMaxRows == 3
NumKeys == 2
NumCols == 3
MaxWrites == 4
MaxBatch == 2
\* SpecReplay: the largest checkpoint timestamp of a block file and the number
\* of times the file is opened
MaxCkpTs == 2
NumHandles == 2
\* SpecLock: the threads that call into one block
NumThreads == 2
\* SpecClose: the threads that destroy, read and write one block, and the
\* public operations they make in a run
NumClosers == 3
MaxClosedOps == 1
\* SpecScore: the capacity of the scored block, the changes made to it, the
\* timestamps of its commits and checkpoints and the ceiling of nice
ScoreMaxRows == 400
MaxChanges == 3
MaxScoreTs == 2
MaxNice == 1
\* SpecOpen: the rows of the block files that are opened step by step
MaxOpenRows == 2
\* SpecCompact: the blocks of the catalog (their ids)
NumBlocks == 2

Txns == 1..MaxTxn
Keys == 1..NumKeys
\* user columns; column PKCol is the single sort key, HiddenCol the hidden key
Cols == 0..(NumCols - 1)
PKCol == CHOOSE c \in Cols : \A d \in Cols : c <= d
HiddenCol == NumCols
\* the value a transaction writes: distinct per transaction, never a base value
UpdVal(t) == 90 + t
NoRow == 0 - 1
\* every start and commit timestamp comes from one clock
MaxTs == 2 * MaxTxn
\* the nil value of a cell read; every stored value is positive
Nil == 0 * MaxTs

\* ----------------------------------------------------------------- helpers
SetMax(S) == CHOOSE x \in S : \A y \in S : y <= x
SetMin(S) == CHOOSE x \in S : \A y \in S : x <= y
Max(a, b) == IF a >= b THEN a ELSE b

Range(f) == {f[x] : x \in DOMAIN f}
Indices(s) == 1..Len(s)

\* the base (appended) value of column c of a row whose primary key is pk
BaseVal(pk, c) == IF c = PKCol THEN pk ELSE 10 * pk + c

\* -------------------------------------------------------------- MVCC handle
\* append node: [start, len, txn, commit, aborted]; commit = 0 while uncommitted
\* update node: [txn, start, commit, vals], DOMAIN vals its row mask
\* delete node: [txn, start, commit, rows]
NewMVCCHandle ==
    [appends |-> << >>, chains |-> [c \in Cols |-> << >>], deletes |-> << >>, maxVisible |-> 0]

CommittedAt(n, ts) == n.commit # 0 /\ n.commit <= ts
IsAborted(n) == "aborted" \in DOMAIN n /\ n.aborted

\* (maxRow, visible): the end of the rows whose append is committed at ts
GetMaxVisibleRowLocked(mvcc, ts) ==
    LET S == {i \in Indices(mvcc.appends) : CommittedAt(mvcc.appends[i], ts)}
    IN  IF S = {} THEN [row |-> 0, visible |-> FALSE]
        ELSE [row |-> SetMax({mvcc.appends[i].start + mvcc.appends[i].len : i \in S}),
              visible |-> TRUE]

IsVisibleLocked(mvcc, row, ts) ==
    \E i \in Indices(mvcc.appends) :
        /\ mvcc.appends[i].start <= row
        /\ row < mvcc.appends[i].start + mvcc.appends[i].len
        /\ CommittedAt(mvcc.appends[i], ts)

IsDeletedLocked(mvcc, row, ts) ==
    \E i \in Indices(mvcc.deletes) :
        CommittedAt(mvcc.deletes[i], ts) /\ row \in mvcc.deletes[i].rows

\* the delete mask at ts; the empty set stands for the nil node
CollectDeletesLocked(mvcc, ts) ==
    UNION {mvcc.deletes[i].rows : i \in {j \in Indices(mvcc.deletes) : CommittedAt(mvcc.deletes[j], ts)}}

\* the node of `chain` that decides row at ts: greatest commit ts <= ts, the
\* later node of the chain among equals; 0 when no committed node covers row
WinnerAt(chain, row, ts) ==
    LET S == {i \in Indices(chain) : CommittedAt(chain[i], ts) /\ row \in DOMAIN chain[i].vals}
    IN  IF S = {} THEN 0
        ELSE CHOOSE i \in S : \A j \in S :
                \/ chain[j].commit < chain[i].commit
                \/ (chain[j].commit = chain[i].commit /\ j <= i)

\* folds the chain at ts into (mask, values)
CollectUpdatesLocked(chain, ts) ==
    LET w == [r \in 0..(BlockMaxRows - 1) |-> WinnerAt(chain, r, ts)]
    IN  [r \in {x \in 0..(BlockMaxRows - 1) : w[x] # 0} |-> chain[w[r]].vals[r]]

\* value of row in the chain at ts, or "NotFound"
ChainGetValueLocked(chain, row, ts) ==
    LET w == WinnerAt(chain, row, ts)
    IN  IF w = 0 THEN [err |-> "NotFound", v |-> Nil]
        ELSE [err |-> "", v |-> chain[w].vals[row]]

\* a delete of [start, end] as seen at ts: "" when no delete node covers a row of it
CheckNotDeleted(mvcc, start, end, ts) ==
    LET S == {i \in Indices(mvcc.deletes) : mvcc.deletes[i].rows \cap (start..end) # {}}
    IN  IF S = {} THEN ""
        ELSE IF \E i \in S : \/ (mvcc.deletes[i].commit = 0 /\ mvcc.deletes[i].start # ts)
                             \/ mvcc.deletes[i].commit > ts
             THEN "WWConflict"
             ELSE "NotFound"

\* an update of a row of [start, end], in any column, not yet visible at ts
CheckNotUpdated(mvcc, start, end, ts) ==
    IF \E c \in Cols : \E i \in Indices(mvcc.chains[c]) :
          /\ DOMAIN mvcc.chains[c][i].vals \cap (start..end) # {}
          /\ \/ (mvcc.chains[c][i].commit = 0 /\ mvcc.chains[c][i].start # ts)
             \/ mvcc.chains[c][i].commit > ts
    THEN "WWConflict" ELSE ""

AddNodeLocked(chain, txn, startTs) ==
    Append(chain, [txn |-> txn, start |-> startTs, commit |-> 0, vals |-> << >>])

\* writes (row, v) into the last node of the chain, unless another transaction's
\* write of row in this chain is in flight or was committed after the node's start
TryUpdateNodeLocked(chain, row, v) ==
    LET node == chain[Len(chain)]
        clash == \E i \in 1..(Len(chain) - 1) :
                    /\ chain[i].txn # node.txn
                    /\ row \in DOMAIN chain[i].vals
                    /\ (chain[i].commit = 0 \/ chain[i].commit > node.start)
    IN  IF clash THEN [err |-> "WWConflict", chain |-> chain]
        ELSE [err |-> "",
              chain |-> [chain EXCEPT ![Len(chain)].vals = (row :> v)]]

DeleteNodeLocked(chain) == SubSeq(chain, 1, Len(chain) - 1)

CreateDeleteNode(mvcc, txn, startTs, start, end) ==
    [mvcc EXCEPT !.deletes =
        Append(@, [txn |-> txn, start |-> startTs, commit |-> 0, rows |-> start..end])]

\* ------------------------------------------------------------------ PK index
\* mutable index: active map key -> row (NoRow when absent), tombstones key -> ts
NewMutableIndex ==
    [active |-> [k \in Keys |-> NoRow], tomb |-> [k \in Keys |-> 0], maxDeleteTS |-> 0]

GetActiveRow(index, key) == index.active[key]

RECURSIVE IndexBatchUpsert(_, _, _)
IndexBatchUpsert(index, keys, startOffset) ==
    IF keys = << >> THEN index
    ELSE IndexBatchUpsert([index EXCEPT !.active[Head(keys)] = startOffset],
                          Tail(keys), startOffset + 1)

IndexDelete(index, key, ts) ==
    [index EXCEPT !.active[key] = NoRow,
                  !.tomb[key] = ts,
                  !.maxDeleteTS = Max(@, ts)]

\* the positions of pks to check against the tombstones, or Duplicate
IndexBatchDedup(index, pks, rowmask) ==
    IF \E i \in Indices(pks) : index.active[pks[i]] # NoRow /\ index.active[pks[i]] \notin rowmask
    THEN [err |-> "Duplicate", keyselects |-> {}]
    ELSE [err |-> "", keyselects |-> Indices(pks)]

HasDeleteFrom(index, key, ts) == index.tomb[key] # 0 /\ index.tomb[key] <= ts

IsKeyDeleted(index, key, ts) ==
    [existed |-> index.tomb[key] # 0, deleted |-> index.tomb[key] # 0 /\ index.tomb[key] <= ts]

\* immutable index: a membership filter over the keys of the sealed column; it
\* has no false negative and may hold keys the column does not (false
\* positives). The positions of pks it cannot rule out are PossibleDuplicate;
\* the filter knows no row offset, so rowmask plays no part
ImmutableBatchDedup(index, pks, rowmask) ==
    LET sel == {i \in Indices(pks) : pks[i] \in index.filter}
    IN  [err |-> IF sel = {} THEN "" ELSE "PossibleDuplicate", keyselects |-> sel]

\* ------------------------------------------------------------- column views
\* a ColumnView; nil = TRUE stands for the nil view of an invisible read
NilView ==
    [nil |-> TRUE, RawVec |-> << >>, UpdateVals |-> << >>, DeleteMask |-> {},
     AppliedVec |-> << >>, AppliedRows |-> << >>]

NewColumnView(rawvec) ==
    [nil |-> FALSE, RawVec |-> rawvec, UpdateVals |-> << >>, DeleteMask |-> {},
     AppliedVec |-> << >>, AppliedRows |-> << >>]

\* applies the update overlay, then drops the rows of the delete mask;
\* AppliedRows keeps the offset each cell of AppliedVec came from
Eval(view) ==
    LET kept == SelectSeq([i \in Indices(view.RawVec) |-> i - 1],
                          LAMBDA r : r \notin view.DeleteMask)
    IN  [view EXCEPT
           !.AppliedRows = kept,
           !.AppliedVec = [i \in Indices(kept) |->
                             IF kept[i] \in DOMAIN view.UpdateVals
                             THEN view.UpdateVals[kept[i]]
                             ELSE view.RawVec[kept[i] + 1]]]

\* --------------------------------------------------------------- the block
\* dataBlock: node is the row buffer (appendable) or the column file rows
\* (immutable), given by the primary key of each row
FillColumnUpdates(b, view, ts, colIdx) ==
    [view EXCEPT !.UpdateVals = CollectUpdatesLocked(b.mvcc.chains[colIdx], ts)]

FillColumnDeletes(b, view, ts) ==
    [view EXCEPT !.DeleteMask = CollectDeletesLocked(b.mvcc, ts)]

GetMaxVisibleTS(b) == b.mvcc.maxVisible

\* getVectorCopy with the maxVisible shortcut taken on the wrong side
getVectorCopy_WrongSide(b, ts, colIdx, raw) ==
    LET mv == IF ts <= GetMaxVisibleTS(b)
              THEN [row |-> Len(b.node), visible |-> TRUE]
              ELSE GetMaxVisibleRowLocked(b.mvcc, ts)
        rawvec == [i \in 1..mv.row |-> BaseVal(b.node[i], colIdx)]
    IN  IF ~mv.visible THEN NilView
        ELSE IF raw THEN NewColumnView(rawvec)
        ELSE Eval(FillColumnDeletes(b,
                    FillColumnUpdates(b, NewColumnView(rawvec), ts, colIdx), ts))

getVectorCopy(b, ts, colIdx, raw) ==
    LET mv == IF ts >= GetMaxVisibleTS(b)
              THEN [row |-> Len(b.node), visible |-> TRUE]
              ELSE GetMaxVisibleRowLocked(b.mvcc, ts)
        rawvec == [i \in 1..mv.row |-> BaseVal(b.node[i], colIdx)]
    IN  IF ~mv.visible THEN NilView
        ELSE IF raw THEN NewColumnView(rawvec)
        ELSE Eval(FillColumnDeletes(b,
                    FillColumnUpdates(b, NewColumnView(rawvec), ts, colIdx), ts))

GetColumnDataById(b, ts, colIdx) ==
    IF b.appendable THEN getVectorCopy(b, ts, colIdx, FALSE)
    ELSE Eval(FillColumnDeletes(b,
                FillColumnUpdates(b,
                    NewColumnView([i \in Indices(b.node) |-> BaseVal(b.node[i], colIdx)]),
                    ts, colIdx), ts))

\* compute.GetValue(view.RawVec, row) on the base column; a nil view or a row
\* outside the vector panics
BaseValue(b, ts, row, col) ==
    LET view == IF b.appendable THEN getVectorCopy(b, ts, col, TRUE)
                ELSE NewColumnView([i \in Indices(b.node) |-> BaseVal(b.node[i], col)])
    IN  IF view.nil \/ row >= Len(view.RawVec) THEN [v |-> Nil, err |-> "panic"]
        ELSE [v |-> view.RawVec[row + 1], err |-> ""]

\* GetValue that never consults the column chain
GetValue_NoChain(b, ts, row, col) ==
    IF IsDeletedLocked(b.mvcc, row, ts) THEN [v |-> Nil, err |-> "NotFound"]
    ELSE BaseValue(b, ts, row, col)

GetValue(b, ts, row, col) ==
    LET deleted == IsDeletedLocked(b.mvcc, row, ts)
        cv == ChainGetValueLocked(b.mvcc.chains[col], row, ts)
    IN  IF deleted THEN [v |-> Nil, err |-> "NotFound"]
        ELSE IF cv.err = "TxnInternalErr" THEN [v |-> Nil, err |-> cv.err]
        ELSE IF cv.err = "" /\ cv.v # Nil THEN [v |-> cv.v, err |-> ""]
        ELSE BaseValue(b, ts, row, col)

RECURSIVE SumLens(_, _)
SumLens(S, appends) ==
    IF S = {} THEN 0
    ELSE LET i == CHOOSE x \in S : TRUE IN appends[i].len + SumLens(S \ {i}, appends)

\* IsAppendable read from the rows of the appends that are not aborted
IsAppendable_Fine(b) ==
    /\ b.appendable
    /\ SumLens({i \in Indices(b.mvcc.appends) : ~IsAborted(b.mvcc.appends[i])}, b.mvcc.appends)
          # BlockMaxRows

\* the catalog entry is appendable and the node, rows of aborted appends
\* included, is not at capacity
IsAppendable(b) ==
    /\ b.appendable
    /\ Len(b.node) # BlockMaxRows

\* updateWithFineLock that leaves the node of a rejected update in the chain
updateWithFineLock_KeepNode(b, txn, startTs, row, colIdx, v) ==
    LET err == CheckNotDeleted(b.mvcc, row, row, startTs)
        try == TryUpdateNodeLocked(AddNodeLocked(b.mvcc.chains[colIdx], txn, startTs), row, v)
    IN  IF err # "" THEN [blk |-> b, err |-> err]
        ELSE [blk |-> [b EXCEPT !.mvcc.chains[colIdx] = try.chain], err |-> try.err]

\* updateWithFineLock without the test of the delete chain
updateWithFineLock_NoDeleteCheck(b, txn, startTs, row, colIdx, v) ==
    LET try == TryUpdateNodeLocked(AddNodeLocked(b.mvcc.chains[colIdx], txn, startTs), row, v)
    IN  IF try.err # ""
        THEN [blk |-> [b EXCEPT !.mvcc.chains[colIdx] = DeleteNodeLocked(try.chain)],
              err |-> try.err]
        ELSE [blk |-> [b EXCEPT !.mvcc.chains[colIdx] = try.chain], err |-> ""]

updateWithFineLock(b, txn, startTs, row, colIdx, v) ==
    LET err == CheckNotDeleted(b.mvcc, row, row, startTs)
        try == TryUpdateNodeLocked(AddNodeLocked(b.mvcc.chains[colIdx], txn, startTs), row, v)
    IN  IF err # "" THEN [blk |-> b, err |-> err]
        ELSE IF try.err # ""
             THEN [blk |-> [b EXCEPT !.mvcc.chains[colIdx] = DeleteNodeLocked(try.chain)],
                   err |-> try.err]
        ELSE [blk |-> [b EXCEPT !.mvcc.chains[colIdx] = try.chain], err |-> ""]

updateWithCoarseLock(b, txn, startTs, row, colIdx, v) ==
    LET err == CheckNotDeleted(b.mvcc, row, row, startTs)
        err2 == CheckNotUpdated(b.mvcc, row, row, startTs)
        try == TryUpdateNodeLocked(AddNodeLocked(b.mvcc.chains[colIdx], txn, startTs), row, v)
    IN  IF err # "" THEN [blk |-> b, err |-> err]
        ELSE IF err2 # "" THEN [blk |-> b, err |-> err2]
        ELSE IF try.err # ""
             THEN [blk |-> [b EXCEPT !.mvcc.chains[colIdx] = DeleteNodeLocked(try.chain)],
                   err |-> try.err]
        ELSE [blk |-> [b EXCEPT !.mvcc.chains[colIdx] = try.chain], err |-> ""]

\* Update sent through the coarse-grained path
Update_Coarse(b, txn, startTs, row, colIdx, v) ==
    IF colIdx = HiddenCol THEN [blk |-> b, err |-> "UpdateHiddenKey"]
    ELSE updateWithCoarseLock(b, txn, startTs, row, colIdx, v)

Update(b, txn, startTs, row, colIdx, v) ==
    IF colIdx = HiddenCol THEN [blk |-> b, err |-> "UpdateHiddenKey"]
    ELSE updateWithFineLock(b, txn, startTs, row, colIdx, v)

\* RangeDelete without the test of the column chains
RangeDelete_SkipUpdated(b, txn, startTs, start, end) ==
    LET err == CheckNotDeleted(b.mvcc, start, end, startTs)
    IN  IF err # "" THEN [blk |-> b, err |-> err]
        ELSE [blk |-> [b EXCEPT !.mvcc = CreateDeleteNode(@, txn, startTs, start, end)],
              err |-> ""]

RangeDelete(b, txn, startTs, start, end) ==
    LET err == CheckNotDeleted(b.mvcc, start, end, startTs)
        err2 == CheckNotUpdated(b.mvcc, start, end, startTs)
    IN  IF err # "" THEN [blk |-> b, err |-> err]
        ELSE IF err2 # "" THEN [blk |-> b, err |-> err2]
        ELSE [blk |-> [b EXCEPT !.mvcc = CreateDeleteNode(@, txn, startTs, start, end)],
              err |-> ""]

\* GetByFilter of an appendable block with a primary key: offset is assigned by
\* GetActiveRow alone (the zero offset when the key is not active); the
\* tombstones settle the error only
ablkGetByFilter(b, ts, key) ==
    LET row == GetActiveRow(b.index, key)
        offset == IF row = NoRow THEN 0 ELSE row
        k == IsKeyDeleted(b.index, key, ts)
    IN  IF row # NoRow /\ IsVisibleLocked(b.mvcc, row, ts)
        THEN [offset |-> offset,
              err |-> IF IsDeletedLocked(b.mvcc, row, ts) THEN "NotFound" ELSE ""]
        ELSE [offset |-> offset,
              err |-> IF ~k.existed \/ k.deleted THEN "NotFound" ELSE ""]

\* GetByFilter of a sealed block that does not look at the delete chain
blkGetByFilter_NoDeleteCheck(b, ts, key, dedupErr) ==
    LET err == IF dedupErr # "" THEN dedupErr
               ELSE ImmutableBatchDedup(b.index, <<key>>, {}).err
        existed == \E i \in Indices(b.node) : b.node[i] = key
        offset == IF existed THEN (CHOOSE i \in Indices(b.node) : b.node[i] = key) - 1 ELSE 0
    IN  IF err = "" THEN [offset |-> 0, err |-> "NotFound"]
        ELSE IF err # "PossibleDuplicate" THEN [offset |-> 0, err |-> err]
        ELSE IF ~existed THEN [offset |-> offset, err |-> "NotFound"]
        ELSE [offset |-> offset, err |-> ""]

\* GetByFilter of a sealed block with a primary key; dedupErr is the error
\* index.Dedup met inside the index ("" for none), the sorted key column is
\* read from the file and searched by compute.CheckRowExists
blkGetByFilter(b, ts, key, dedupErr) ==
    LET err == IF dedupErr # "" THEN dedupErr
               ELSE ImmutableBatchDedup(b.index, <<key>>, {}).err
        existed == \E i \in Indices(b.node) : b.node[i] = key
        offset == IF existed THEN (CHOOSE i \in Indices(b.node) : b.node[i] = key) - 1 ELSE 0
    IN  IF err = "" THEN [offset |-> 0, err |-> "NotFound"]
        ELSE IF err # "PossibleDuplicate" THEN [offset |-> 0, err |-> err]
        ELSE IF ~existed THEN [offset |-> offset, err |-> "NotFound"]
        ELSE [offset |-> offset,
              err |-> IF IsDeletedLocked(b.mvcc, offset, ts) THEN "NotFound" ELSE ""]

\* BatchDedup that drops the error of the index
BatchDedup_DropErr(b, ts, pks, rowmask) ==
    LET d == IndexBatchDedup(b.index, pks, rowmask)
    IN  IF ts > b.index.maxDeleteTS THEN ""
        ELSE IF \E i \in Indices(pks) : HasDeleteFrom(b.index, pks[i], ts) THEN "WWConflict"
        ELSE ""

\* the PK column of a sealed block with the delete mask at ts; AppliedVec is
\* the raw column, no row is dropped from it
GetPKColumnDataOptimized(b, ts) ==
    LET view == NewColumnView([i \in Indices(b.node) |-> BaseVal(b.node[i], PKCol)])
    IN  [FillColumnDeletes(b, view, ts) EXCEPT !.AppliedVec = view.RawVec]

\* compute.CheckRowExists: a row of vec that holds v and is not in mask
CheckRowExists(vec, v, mask) ==
    \E i \in Indices(vec) : vec[i] = v /\ (i - 1) \notin mask

\* the sealed branch of BatchDedup that takes the answer of the index as final
BatchDedupSealed_NoResolve(b, ts, pks, rowmask) ==
    IF ImmutableBatchDedup(b.index, pks, rowmask).err = "" THEN "" ELSE "Duplicate"

\* the sealed branch of BatchDedup
BatchDedupSealed(b, ts, pks, rowmask) ==
    LET d == ImmutableBatchDedup(b.index, pks, rowmask)
        view == GetPKColumnDataOptimized(b, ts)
    IN  IF d.err = "" THEN ""
        ELSE IF \E i \in d.keyselects : CheckRowExists(view.AppliedVec, pks[i], view.DeleteMask)
        THEN "Duplicate"
        ELSE ""

\* the appendable branch of BatchDedup without the maxDeleteTS shortcut
BatchDedupAppendable_NoShortcut(b, ts, pks, rowmask) ==
    LET d == IndexBatchDedup(b.index, pks, rowmask)
    IN  IF d.err # "" THEN d.err
        ELSE IF \E i \in d.keyselects : HasDeleteFrom(b.index, pks[i], ts) THEN "WWConflict"
        ELSE ""

\* the appendable branch of BatchDedup
BatchDedupAppendable(b, ts, pks, rowmask) ==
    LET d == IndexBatchDedup(b.index, pks, rowmask)
    IN  IF d.err # "" THEN d.err
        ELSE IF ts > b.index.maxDeleteTS THEN ""
        ELSE IF \E i \in d.keyselects : HasDeleteFrom(b.index, pks[i], ts) THEN "WWConflict"
        ELSE ""

BatchDedup(b, ts, pks, rowmask) ==
    IF b.appendable THEN BatchDedupAppendable(b, ts, pks, rowmask)
    ELSE BatchDedupSealed(b, ts, pks, rowmask)

\* the delete listener of an appendable block with a single-column primary key:
\* rows are visited in ascending order
RECURSIVE ApplyDeleteLoop(_, _, _, _)
ApplyDeleteLoop(index, node, rows, ts) ==
    IF rows = {} THEN index
    ELSE LET row == SetMin(rows)
             v == node[row + 1]
             currRow == GetActiveRow(index, v)
         IN  ApplyDeleteLoop(
                 IF currRow = NoRow \/ currRow = row THEN IndexDelete(index, v, ts) ELSE index,
                 node, rows \ {row}, ts)

\* the listener without the test that the index still points at the deleted row
RECURSIVE ApplyDeleteLoop_AnyRow(_, _, _, _)
ApplyDeleteLoop_AnyRow(index, node, rows, ts) ==
    IF rows = {} THEN index
    ELSE LET row == SetMin(rows)
         IN  ApplyDeleteLoop_AnyRow(IndexDelete(index, node[row + 1], ts),
                                    node, rows \ {row}, ts)

ABlkApplyDelete_AnyRow(b, deleted, rows, ts) ==
    [b EXCEPT !.index = ApplyDeleteLoop_AnyRow(b.index, b.node, rows, ts),
              !.removed = @ + deleted]

ABlkApplyDelete(b, deleted, rows, ts) ==
    [b EXCEPT !.index = ApplyDeleteLoop(b.index, b.node, rows, ts),
              !.removed = @ + deleted]

BlkApplyDelete(b, deleted, rows, ts) == [b EXCEPT !.removed = @ + deleted]

\* node.OnApply(): the listener installed by newBlock
OnApply(b, rows, ts) ==
    IF b.appendable THEN ABlkApplyDelete(b, Cardinality(rows), rows, ts)
    ELSE BlkApplyDelete(b, Cardinality(rows), rows, ts)

\* ------------------------------------------------------- open and replay
\* a block file: rows (the primary key of each on-disk row), ts (ReadTS),
\* updates (LoadUpdates: column -> row -> value) and deletes (LoadDeletes; the
\* empty set is the nil mask)
EmptyFile == [rows |-> << >>, ts |-> 0, updates |-> << >>, deletes |-> {}]

\* immutable index: the key filter read from the sorted on-disk column
NewImmutableIndex == [filter |-> {}]
IndexReadFrom(b) == [filter |-> Range(b.node)]

ReplayIndex(b) ==
    IF b.appendable
    THEN [b EXCEPT !.index =
            IndexBatchUpsert(@, [i \in Indices(b.node) |-> BaseVal(b.node[i], PKCol)], 0)]
    ELSE [b EXCEPT !.index = IndexReadFrom(b)]

OnReplayUpdate(b, colIdx, un) == [b EXCEPT !.mvcc.chains[colIdx] = Append(@, un)]

OnReplayDelete(b, node) ==
    OnApply([b EXCEPT !.mvcc.deletes = Append(@, node)], node.rows, node.commit)

NewCommittedAppendNode(ts, maxRow) ==
    [start |-> 0, len |-> maxRow, txn |-> 0, commit |-> ts, aborted |-> FALSE]

NewCommittedColumnNode(ts, vals) == [txn |-> 0, start |-> ts, commit |-> ts, vals |-> vals]

NewMergedNode(ts, deletes) == [txn |-> 0, start |-> ts, commit |-> ts, rows |-> deletes]

\* the loop over the update masks; order is the order in which the map of
\* masks is iterated
RECURSIVE ReplayUpdates(_, _, _)
ReplayUpdates(b, file, order) ==
    IF order = << >> THEN b
    ELSE ReplayUpdates(
            OnReplayUpdate(b, Head(order),
                           NewCommittedColumnNode(b.ckpTs, file.updates[Head(order)])),
            file, Tail(order))

\* ReplayDelta that leaves the loop after the first update mask
ReplayDelta_FirstMask(b, file, order) ==
    IF ~b.appendable THEN b
    ELSE LET b1 == [b EXCEPT !.mvcc.appends =
                        Append(@, NewCommittedAppendNode(b.ckpTs, Len(b.node)))]
             b2 == ReplayUpdates(b1, file, IF order = << >> THEN order ELSE <<Head(order)>>)
         IN  IF file.deletes = {} THEN b2
             ELSE OnReplayDelete(b2, NewMergedNode(b.ckpTs, file.deletes))

ReplayDelta(b, file, order) ==
    IF ~b.appendable THEN b
    ELSE LET b1 == [b EXCEPT !.mvcc.appends =
                        Append(@, NewCommittedAppendNode(b.ckpTs, Len(b.node)))]
             b2 == ReplayUpdates(b1, file, order)
         IN  IF file.deletes = {} THEN b2
             ELSE OnReplayDelete(b2, NewMergedNode(b.ckpTs, file.deletes))

\* newBlock up to the test of ts: ts is what ReadTS returned
allocBlock(file, appendable, ts) ==
    [appendable |-> appendable,
     node |-> file.rows,
     mvcc |-> [NewMVCCHandle EXCEPT !.maxVisible = ts],
     index |-> IF appendable THEN NewMutableIndex ELSE NewImmutableIndex,
     ckpTs |-> ts,
     removed |-> 0]

newBlock(file, appendable, order) ==
    LET b == allocBlock(file, appendable, file.ts)
    IN  IF file.ts > 0 THEN ReplayDelta(ReplayIndex(b), file, order) ELSE b

\* ------------------------------------------------- transactions on a block
\* the transaction manager and the appender drive the block: every start and
\* commit timestamp is drawn from `clock`
VARIABLES blk, txns, clock, file, mode, handles, thr, cls, sc, dedupCall

txnVars == <<blk, txns, clock>>
replayVars == <<file, mode, handles>>
vars == <<blk, txns, clock, file, mode, handles, thr, cls, sc, dedupCall>>

\* a new appendable block: nothing on disk
FreshBlock == newBlock(EmptyFile, TRUE, << >>)

\* op and err are the last call of the transaction into the block and its answer
IdleTxn ==
    [state |-> "idle", start |-> 0, commit |-> 0, op |-> "", err |-> "", writes |-> 0]

\* batches of distinct keys
Batches == {s \in UNION {[1..n -> Keys] : n \in 1..MaxBatch} :
               \A i, j \in DOMAIN s : i # j => s[i] # s[j]}

UpdCols == Cols \ {PKCol}

Active(t) == txns[t].state = "active"
\* a transaction that met a conflict or a duplicate can only abort
MayGoOn(t) == Active(t) /\ txns[t].err \notin {"WWConflict", "Duplicate"}
RECURSIVE SumWrites(_)
SumWrites(S) == IF S = {} THEN 0
                ELSE LET t == CHOOSE x \in S : TRUE IN txns[t].writes + SumWrites(S \ {t})
\* MaxWrites bounds the write operations of a run
MayWrite(t) == MayGoOn(t) /\ SumWrites(Txns) < MaxWrites

Noted(t, op, err) == [txns EXCEPT ![t].op = op, ![t].err = err, ![t].writes = @ + 1]

\* appender: the rows go to the tail of the node, an uncommitted append node
\* is added and the keys are upserted into the index
AppendRows(b, txn, startTs, keys) ==
    [b EXCEPT !.node = @ \o keys,
              !.mvcc.appends = Append(@, [start |-> Len(b.node), len |-> Len(keys), txn |-> txn,
                                          commit |-> 0, aborted |-> FALSE]),
              !.index = IndexBatchUpsert(@, keys, Len(b.node))]

SetCommit(s, t, cts) ==
    [i \in Indices(s) |-> IF s[i].txn = t /\ s[i].commit = 0 /\ ~IsAborted(s[i])
                          THEN [s[i] EXCEPT !.commit = cts] ELSE s[i]]

RECURSIVE ApplyDeleteNodes(_, _, _)
ApplyDeleteNodes(b, nodes, ts) ==
    IF nodes = << >> THEN b
    ELSE ApplyDeleteNodes(OnApply(b, Head(nodes).rows, ts), Tail(nodes), ts)

OwnedBy(s, t) == SelectSeq(s, LAMBDA n : n.txn = t /\ n.commit = 0)
NotOwnedBy(s, t) == SelectSeq(s, LAMBDA n : ~(n.txn = t /\ n.commit = 0))

Touches(b, t) ==
    \/ \E i \in Indices(b.mvcc.appends) : b.mvcc.appends[i].txn = t
    \/ \E i \in Indices(b.mvcc.deletes) : b.mvcc.deletes[i].txn = t
    \/ \E c \in Cols : \E i \in Indices(b.mvcc.chains[c]) : b.mvcc.chains[c][i].txn = t

\* commit: every node of the transaction gets the commit timestamp, maxVisible
\* advances, and each committed delete node is applied through the listener
CommitTxn(b, t, cts) ==
    IF ~Touches(b, t) THEN b
    ELSE ApplyDeleteNodes(
            [b EXCEPT !.mvcc.appends = SetCommit(@, t, cts),
                      !.mvcc.chains = [c \in Cols |-> SetCommit(@[c], t, cts)],
                      !.mvcc.deletes = SetCommit(@, t, cts),
                      !.mvcc.maxVisible = Max(@, cts)],
            OwnedBy(b.mvcc.deletes, t), cts)

\* abort: update and delete nodes leave their chains, append nodes are marked
AbortTxn(b, t) ==
    [b EXCEPT !.mvcc.appends = [i \in Indices(@) |->
                                  IF @[i].txn = t THEN [@[i] EXCEPT !.aborted = TRUE] ELSE @[i]],
              !.mvcc.chains = [c \in Cols |-> NotOwnedBy(@[c], t)],
              !.mvcc.deletes = NotOwnedBy(@, t)]

Begin(t) ==
    /\ txns[t].state = "idle"
    /\ \A u \in Txns : u < t => txns[u].state # "idle"
    /\ clock < MaxTs
    /\ clock' = clock + 1
    /\ txns' = [txns EXCEPT ![t] = [IdleTxn EXCEPT !.state = "active", !.start = clock + 1]]
    /\ UNCHANGED <<blk, replayVars, thr, cls, sc, dedupCall>>

DoAppend(t, keys) ==
    /\ MayWrite(t)
    /\ blk.appendable
    /\ Len(blk.node) + Len(keys) <= BlockMaxRows
    /\ LET err == BatchDedup(blk, txns[t].start, keys, {})
       IN  /\ blk' = IF err = "" THEN AppendRows(blk, t, txns[t].start, keys) ELSE blk
           /\ txns' = Noted(t, "Append", err)
    /\ UNCHANGED <<clock, replayVars, thr, cls, sc, dedupCall>>

DoUpdate(t, row, colIdx, v) ==
    /\ MayWrite(t)
    /\ IsVisibleLocked(blk.mvcc, row, txns[t].start)
    /\ LET r == Update(blk, t, txns[t].start, row, colIdx, v)
       IN  /\ blk' = r.blk
           /\ txns' = Noted(t, "Update", r.err)
    /\ UNCHANGED <<clock, replayVars, thr, cls, sc, dedupCall>>

DoRangeDelete(t, start, end) ==
    /\ MayWrite(t)
    /\ start <= end
    /\ \A row \in start..end : IsVisibleLocked(blk.mvcc, row, txns[t].start)
    /\ LET r == RangeDelete(blk, t, txns[t].start, start, end)
       IN  /\ blk' = r.blk
           /\ txns' = Noted(t, "RangeDelete", r.err)
    /\ UNCHANGED <<clock, replayVars, thr, cls, sc, dedupCall>>

DoCommit(t) ==
    /\ MayGoOn(t)
    /\ clock < MaxTs
    /\ clock' = clock + 1
    /\ blk' = CommitTxn(blk, t, clock + 1)
    /\ txns' = [txns EXCEPT ![t].state = "committed", ![t].commit = clock + 1]
    /\ UNCHANGED <<replayVars, thr, cls, sc, dedupCall>>

DoAbort(t) ==
    /\ Active(t)
    /\ blk' = AbortTxn(blk, t)
    /\ txns' = [txns EXCEPT ![t].state = "aborted"]
    /\ UNCHANGED <<clock, replayVars, thr, cls, sc, dedupCall>>

Threads == 1..NumThreads
\* a thread that has called nothing yet
NoCall == [op |-> "", exit |-> {}, ev |-> << >>]
IdleThread == [path |-> NoCall, pc |-> 1, want |-> FALSE]

\* the resources Destroy releases, in the order it releases them
Resources == <<"node", "colFiles", "index", "fileClose", "fileDestroy">>
Closers == 1..NumClosers
IdleCloser == [op |-> "", pc |-> "", early |-> FALSE, did |-> FALSE]
NoOp == [op |-> "", afterClose |-> FALSE, err |-> "", changed |-> FALSE]
\* a block nobody has destroyed: closed is the ClosedState latch, steps counts
\* the runs of each release step, won and lost are the callers of Destroy
\* that got and did not get the latch
OpenState ==
    [closed |-> FALSE,
     steps |-> [r \in Range(Resources) |-> 0],
     won |-> {}, lost |-> {}, touched |-> {},
     thr |-> [t \in Closers |-> IdleCloser],
     nops |-> 0, log |-> NoOp]
\* BatchDedup was not called
NoDedup == [called |-> FALSE]
\* no block is scored
NoScore == [on |-> FALSE]

Handles == 1..NumHandles
Closed == [open |-> FALSE, order |-> << >>, blk |-> FreshBlock]

Init ==
    /\ blk = FreshBlock
    /\ txns = [t \in Txns |-> IdleTxn]
    /\ clock = 0
    /\ file = EmptyFile
    /\ mode = TRUE
    /\ handles = [h \in Handles |-> Closed]
    /\ thr = [t \in Threads |-> IdleThread]
    /\ cls = OpenState
    /\ sc = NoScore
    /\ dedupCall = NoDedup

Next ==
    \E t \in Txns :
        \/ Begin(t)
        \/ \E keys \in Batches : DoAppend(t, keys)
        \/ \E row \in 0..(BlockMaxRows - 1), c \in UpdCols \cup {HiddenCol} :
              DoUpdate(t, row, c, UpdVal(t))
        \/ \E start, end \in 0..(BlockMaxRows - 1) : DoRangeDelete(t, start, end)
        \/ DoCommit(t)
        \/ DoAbort(t)

Spec == Init /\ [][Next]_vars

\* ------------------------------------------------------ reopening a block
\* the value the checkpoint stored for an updated cell of a row
DiskVal(row) == 70 + row

RowSeqs == UNION {[1..n -> Keys] : n \in 0..BlockMaxRows}

\* the masks and values of one column: a non-empty set of rows with a value each
ColumnMasks(n) == {[r \in R |-> DiskVal(r)] : R \in (SUBSET (0..(n - 1))) \ {{}}}

UpdateMaps(n) == UNION {[C -> ColumnMasks(n)] : C \in SUBSET UpdCols}

FilesWith(rows) ==
    {[rows |-> rows, ts |-> ts, updates |-> u, deletes |-> d] :
        ts \in 1..MaxCkpTs, u \in UpdateMaps(Len(rows)), d \in SUBSET (0..(Len(rows) - 1))}

\* what a checkpoint can have written: of the rows sharing a key only the last
\* one may be live, and the rows of a sealed block are sorted by key
ValidFile(f, appendable) ==
    /\ \A i, j \in Indices(f.rows) :
          i < j /\ f.rows[i] = f.rows[j] => (i - 1) \in f.deletes
    /\ ~appendable => \A i, j \in Indices(f.rows) : i < j => f.rows[i] < f.rows[j]

Files(appendable) ==
    {EmptyFile} \cup {f \in UNION {FilesWith(rows) : rows \in RowSeqs} : ValidFile(f, appendable)}

\* the orders in which a map with the key set S can be iterated
Orders(S) == {o \in [1..Cardinality(S) -> S] : \A i, j \in DOMAIN o : i # j => o[i] # o[j]}

InitReplay ==
    /\ mode \in BOOLEAN
    /\ file \in Files(mode)
    /\ handles = [h \in Handles |-> Closed]
    /\ blk = FreshBlock
    /\ txns = [t \in Txns |-> IdleTxn]
    /\ clock = 0
    /\ thr = [t \in Threads |-> IdleThread]
    /\ cls = OpenState
    /\ sc = NoScore
    /\ dedupCall = NoDedup

\* newBlock on the file
Open(h) ==
    /\ ~handles[h].open
    /\ \E order \in Orders(DOMAIN file.updates) :
          handles' = [handles EXCEPT ![h] =
                        [open |-> TRUE, order |-> order, blk |-> newBlock(file, mode, order)]]
    /\ UNCHANGED <<file, mode, txnVars, thr, cls, sc, dedupCall>>

NextReplay == \E h \in Handles : Open(h)

SpecReplay == InitReplay /\ [][NextReplay]_vars

\* ------------------------------------------- opening a block step by step
\* the steps of newBlock with the index rebuilt after ReplayDelta
OpenSteps_IndexLast == <<"ReadTS", "append", "updates", "deletes", "ReplayIndex">>

\* the steps of newBlock: ReadTS, then when ts > 0 ReplayIndex and the three
\* steps of ReplayDelta (the append node, the update masks, the delete mask)
OpenSteps == <<"ReadTS", "ReplayIndex", "append", "updates", "deletes">>

\* the reads of the block file that can fail, and what ReadTS hands back with
\* its error
OpenFaults ==
    {[at |-> "", got |-> 0], [at |-> "ReplayIndex", got |-> 0], [at |-> "LoadDeletes", got |-> 0]}
        \cup {[at |-> "ReadTS", got |-> ts] : ts \in 0..MaxCkpTs}

\* a handle that is being opened: at is the next step of OpenSteps (0 before
\* the call), trace the steps that ran, met whether the failing read was made,
\* failed whether newBlock panicked
Unopened ==
    [open |-> FALSE, order |-> << >>, blk |-> FreshBlock, at |-> 0,
     fault |-> [at |-> "", got |-> 0], met |-> FALSE, failed |-> FALSE, trace |-> << >>]

InitOpen ==
    /\ mode \in BOOLEAN
    /\ file \in {f \in Files(mode) : Len(f.rows) <= MaxOpenRows}
    /\ handles = [h \in Handles |-> IF h = 1 THEN Unopened ELSE Closed]
    /\ blk = FreshBlock
    /\ txns = [t \in Txns |-> IdleTxn]
    /\ clock = 0
    /\ thr = [t \in Threads |-> IdleThread]
    /\ cls = OpenState
    /\ sc = NoScore
    /\ dedupCall = NoDedup

\* newBlock is called on the file: the order in which the map of update masks
\* will be iterated and the read that will fail are fixed here
OpenCall(fault, order) ==
    /\ handles[1].at = 0 /\ ~handles[1].open /\ ~handles[1].failed
    /\ order \in Orders(DOMAIN file.updates)
    /\ handles' = [handles EXCEPT ![1] = [Unopened EXCEPT !.at = 1, !.order = order,
                                                          !.fault = fault]]
    /\ UNCHANGED <<file, mode, txnVars, thr, cls, sc, dedupCall>>

\* the next step of newBlock
OpenStep ==
    /\ handles[1].at > 0
    /\ LET h == handles[1]
           step == OpenSteps[h.at]
           last == h.at = Len(OpenSteps)
           next == [h EXCEPT !.at = IF last THEN 0 ELSE @ + 1, !.open = last]
           ran == [next EXCEPT !.trace = Append(@, step)]
           panic == [h EXCEPT !.at = 0, !.failed = TRUE, !.met = TRUE]
           ts == IF h.fault.at = "ReadTS" THEN h.fault.got ELSE file.ts
       IN  handles' = [handles EXCEPT ![1] =
             CASE step = "ReadTS" ->
                    \* ts, _ := block.file.ReadTS(); nothing is replayed when ts = 0
                    [ran EXCEPT !.blk = allocBlock(file, mode, ts),
                                !.met = h.fault.at = "ReadTS",
                                !.at = IF ts > 0 THEN @ ELSE 0,
                                !.open = ts = 0]
               [] step = "ReplayIndex" ->
                    IF h.fault.at = "ReplayIndex" THEN panic
                    ELSE [ran EXCEPT !.blk = ReplayIndex(@)]
               [] step = "append" ->
                    \* ReplayDelta returns at once on a block that is not appendable
                    IF ~mode THEN next
                    ELSE [ran EXCEPT !.blk.mvcc.appends =
                            Append(@, NewCommittedAppendNode(h.blk.ckpTs, Len(h.blk.node)))]
               [] step = "updates" ->
                    IF ~mode \/ DOMAIN file.updates = {} THEN next
                    ELSE [ran EXCEPT !.blk = ReplayUpdates(@, file, h.order)]
               [] OTHER ->
                    IF ~mode THEN next
                    ELSE IF h.fault.at = "LoadDeletes" THEN panic
                    ELSE IF file.deletes = {} THEN next
                    ELSE [ran EXCEPT !.blk =
                            OnReplayDelete(@, NewMergedNode(h.blk.ckpTs, file.deletes))]]
    /\ UNCHANGED <<file, mode, txnVars, thr, cls, sc, dedupCall>>

NextOpen ==
    \/ \E fault \in OpenFaults, order \in UNION {Orders(C) : C \in SUBSET UpdCols} :
           OpenCall(fault, order)
    \/ OpenStep

SpecOpen == InitOpen /\ [][NextOpen]_vars

\* ------------------------------------------------------ locks of a block
\* the reader-writer locks an operation of the block can take
metaLock == [kind |-> "meta", col |-> 0]
mvccLock == [kind |-> "mvcc", col |-> 0]
chainLock(c) == [kind |-> "chain", col |-> c]
indexLock == [kind |-> "index", col |-> 0]
Locks == {metaLock, mvccLock, indexLock} \cup {chainLock(c) : c \in Cols}

\* catalog meta -> ClosedState -> MVCC handle -> column chain -> PK index
Rank(l) ==
    CASE l.kind = "meta" -> 1
      [] l.kind = "closed" -> 2
      [] l.kind = "mvcc" -> 3
      [] l.kind = "chain" -> 4
      [] l.kind = "index" -> 5

RLock(l) == [op |-> "RLock", lock |-> l]
RUnlock(l) == [op |-> "RUnlock", lock |-> l]
Lock(l) == [op |-> "Lock", lock |-> l]
Unlock(l) == [op |-> "Unlock", lock |-> l]

\* one way through a function: the exit it leaves by and the lock calls made
Path(exit, ev) == [exit |-> exit, ev |-> ev]
\* a way through a function that first makes the calls of `before`
After(before, paths) == {Path(q.exit, before \o q.ev) : q \in paths}

\* a call of the index: the index guards its maps with its own lock
IndexRead == <<RLock(indexLock), RUnlock(indexLock)>>
IndexWrite == <<Lock(indexLock), Unlock(indexLock)>>

FillColumnUpdatesLocks(colIdx) == <<RLock(chainLock(colIdx)), RUnlock(chainLock(colIdx))>>

FillBlockViewLocks(colIdx) == <<RLock(chainLock(colIdx)), RUnlock(chainLock(colIdx))>>

\* the loop over the columns 0..(k - 1)
RECURSIVE FillBlockViews(_)
FillBlockViews(k) == IF k = 0 THEN << >> ELSE FillBlockViews(k - 1) \o FillBlockViewLocks(k - 1)

MakeBlockViewLocks ==
    {Path("FillBlockView err", <<RLock(mvccLock)>> \o FillBlockViews(k) \o <<RUnlock(mvccLock)>>) :
        k \in 1..NumCols}
    \cup {Path(e, <<RLock(mvccLock)>> \o FillBlockViews(NumCols) \o <<RUnlock(mvccLock)>>) :
            e \in {"CollectDeletesLocked err", "GetMaxVisibleRowLocked err", "ok"}}

GetPKColumnDataOptimizedLocks ==
    {Path("getVectorWrapper err", << >>),
     Path("FillColumnDeletes err", <<RLock(mvccLock), RUnlock(mvccLock)>>),
     Path("ok", <<RLock(mvccLock), RUnlock(mvccLock)>>)}

getVectorCopyLocks(colIdx, raw) ==
    LET first == <<RLock(mvccLock), RUnlock(mvccLock)>>
        fill == <<RLock(mvccLock)>> \o FillColumnUpdatesLocks(colIdx) \o <<RUnlock(mvccLock)>>
    IN  {Path("invisible", first)}
        \cup (IF raw THEN {Path("raw", first)}
              ELSE {Path("GetVectorView err", first),
                    Path("fill err", first \o fill),
                    Path("ok", first \o fill)})

GetColumnDataByIdLocks(colIdx, appendable) ==
    IF appendable THEN getVectorCopyLocks(colIdx, FALSE)
    ELSE LET fill == <<RLock(mvccLock)>> \o FillColumnUpdatesLocks(colIdx) \o <<RUnlock(mvccLock)>>
         IN  {Path("getVectorWithBuffer err", << >>), Path("fill err", fill), Path("ok", fill)}

updateWithCoarseLockLocks(colIdx) ==
    {Path("CheckNotDeleted err", <<Lock(mvccLock), Unlock(mvccLock)>>),
     Path("CheckNotUpdated err", <<Lock(mvccLock), Unlock(mvccLock)>>)}
    \cup {Path(e, <<Lock(mvccLock), Lock(chainLock(colIdx)), Unlock(chainLock(colIdx)),
                    Unlock(mvccLock)>>) : e \in {"TryUpdateNodeLocked err", "ok"}}

updateWithFineLockLocks(colIdx) ==
    {Path("CheckNotDeleted err", <<RLock(mvccLock), RUnlock(mvccLock)>>)}
    \cup {Path(e, <<RLock(mvccLock), Lock(chainLock(colIdx)), Unlock(chainLock(colIdx)),
                    RUnlock(mvccLock)>>) : e \in {"TryUpdateNodeLocked err", "ok"}}

UpdateLocks(colIdx) ==
    IF colIdx = HiddenCol THEN {Path("UpdateHiddenKey", << >>)}
    ELSE updateWithFineLockLocks(colIdx)

RangeDeleteLocks ==
    {Path(e, <<Lock(mvccLock), Unlock(mvccLock)>>) :
        e \in {"CheckNotDeleted err", "CheckNotUpdated err", "ok"}}

\* GetValue with the RUnlock of the TxnInternalErr return left out
GetValueLocks_Leak(col, appendable) ==
    LET chain == <<RLock(mvccLock), RLock(chainLock(col)), RUnlock(chainLock(col))>>
    IN  {Path("IsDeletedLocked err", <<RLock(mvccLock), RUnlock(mvccLock)>>),
         Path("NotFound", <<RLock(mvccLock), RUnlock(mvccLock)>>),
         Path("TxnInternalErr", chain),
         Path("chain value", chain \o <<RUnlock(mvccLock)>>)}
        \cup After(chain \o <<RUnlock(mvccLock)>>,
                   IF appendable THEN getVectorCopyLocks(col, TRUE) ELSE {Path("file", << >>)})

GetValueLocks(col, appendable) ==
    LET chain == <<RLock(mvccLock), RLock(chainLock(col)), RUnlock(chainLock(col)),
                   RUnlock(mvccLock)>>
    IN  {Path("IsDeletedLocked err", <<RLock(mvccLock), RUnlock(mvccLock)>>),
         Path("NotFound", <<RLock(mvccLock), RUnlock(mvccLock)>>),
         Path("TxnInternalErr", chain),
         Path("chain value", chain)}
        \cup After(chain,
                   IF appendable THEN getVectorCopyLocks(col, TRUE) ELSE {Path("file", << >>)})

ablkGetByFilterLocks ==
    {Path(e, <<RLock(mvccLock)>> \o IndexRead \o <<RUnlock(mvccLock)>>) :
        e \in {"GetActiveRow err", "IsVisibleLocked err", "IsDeletedLocked err", "visible"}}
    \cup {Path("IsKeyDeleted", <<RLock(mvccLock)>> \o IndexRead \o IndexRead \o <<RUnlock(mvccLock)>>)}

blkGetByFilterLocks ==
    {Path(e, IndexRead) : e \in {"absent", "Dedup err", "getVectorWrapper err", "not existed"}}
    \cup {Path(e, IndexRead \o <<RLock(mvccLock), RUnlock(mvccLock)>>) :
            e \in {"IsDeletedLocked err", "ok"}}

GetByFilterLocks(appendable) ==
    {Path("no sort key", << >>)}
    \cup (IF appendable THEN ablkGetByFilterLocks ELSE blkGetByFilterLocks)

\* the lock calls of n turns of a loop that makes the calls of `body`
RECURSIVE Times(_, _)
Times(n, body) == IF n = 0 THEN << >> ELSE body \o Times(n - 1, body)

\* the turns of the loop over the deleted rows: each looks the key up and
\* may delete it
DeleteLoops ==
    UNION {{Times(i, IndexRead \o IndexWrite) \o Times(n - i, IndexRead) : i \in 0..n} :
              n \in 1..MaxBatch}

\* the listener that takes the write lock before it gives the read lock back
ABlkApplyDeleteLocks_Upgrade ==
    {Path("no pk", << >>),
     Path("GetVectorByAttr err", <<RLock(mvccLock), RUnlock(mvccLock)>>)}
    \cup {Path("applied", <<RLock(mvccLock), Lock(mvccLock)>> \o loop
                            \o <<Unlock(mvccLock), RUnlock(mvccLock)>>) : loop \in DeleteLoops}

ABlkApplyDeleteLocks ==
    {Path("no pk", << >>),
     Path("GetVectorByAttr err", <<RLock(mvccLock), RUnlock(mvccLock)>>)}
    \cup {Path("applied", <<RLock(mvccLock), RUnlock(mvccLock), Lock(mvccLock)>> \o loop
                            \o <<Unlock(mvccLock)>>) : loop \in DeleteLoops}

BatchDedupLocks(appendable) ==
    IF appendable
    THEN {Path("index err", <<RLock(mvccLock)>> \o IndexRead \o <<RUnlock(mvccLock)>>),
          Path("after maxDeleteTS", <<RLock(mvccLock)>> \o IndexRead \o IndexRead
                                      \o <<RUnlock(mvccLock)>>)}
         \cup {Path("deletes scanned", <<RLock(mvccLock)>> \o IndexRead \o IndexRead
                                         \o Times(n, IndexRead) \o <<RUnlock(mvccLock)>>) :
                 n \in 1..MaxBatch}
    ELSE {Path("no dup", IndexRead)} \cup After(IndexRead, GetPKColumnDataOptimizedLocks)

CollectAppendLogIndexesLocks == {Path("ok", <<RLock(mvccLock), RUnlock(mvccLock)>>)}

\* the loop over the columns 0..(k - 1)
RECURSIVE CollectCommitted(_)
CollectCommitted(k) ==
    IF k = 0 THEN << >>
    ELSE CollectCommitted(k - 1) \o <<RLock(chainLock(k - 1)), RUnlock(chainLock(k - 1))>>

CollectChangesInRangeLocks ==
    {Path("CollectCommittedInRangeLocked err",
          <<RLock(mvccLock)>> \o CollectCommitted(k) \o <<RUnlock(mvccLock)>>) : k \in 1..NumCols}
    \cup {Path("ok", <<RLock(mvccLock)>> \o CollectCommitted(NumCols) \o <<RUnlock(mvccLock)>>)}

EstimateScoreLocks ==
    {Path("dropped", <<RLock(metaLock), RUnlock(metaLock)>>),
     Path("full", <<RLock(metaLock), RUnlock(metaLock)>>),
     Path("score", << >>)}

BuildCompactionTaskFactoryLocks ==
    {Path(e, <<RLock(metaLock), RUnlock(metaLock)>>) : e \in {"dropped or in txn", "ok"}}

\* the catalog changes the entry of the block under the write lock of meta
CatalogWriteLocks == {Path("ok", <<Lock(metaLock), Unlock(metaLock)>>)}

\* the calls of an operation: the exits that make the same lock calls are one call
Calls(op, paths) ==
    {[op |-> op, exit |-> {q.exit : q \in {r \in paths : r.ev = ev}}, ev |-> ev] :
        ev \in {q.ev : q \in paths}}

\* every call a thread can make into a block of the given mode
AllCalls(appendable) ==
    UNION {Calls("Update", UpdateLocks(c)) : c \in UpdCols \cup {HiddenCol}}
    \cup UNION {Calls("updateWithCoarseLock", updateWithCoarseLockLocks(c)) : c \in UpdCols}
    \cup Calls("RangeDelete", RangeDeleteLocks)
    \cup UNION {Calls("GetValue", GetValueLocks(c, appendable)) : c \in Cols}
    \cup Calls("GetByFilter", GetByFilterLocks(appendable))
    \cup Calls("BatchDedup", BatchDedupLocks(appendable))
    \cup Calls("MakeBlockView", MakeBlockViewLocks)
    \cup UNION {Calls("GetColumnDataById", GetColumnDataByIdLocks(c, appendable)) : c \in Cols}
    \cup Calls("CollectAppendLogIndexes", CollectAppendLogIndexesLocks)
    \cup Calls("CollectChangesInRange", CollectChangesInRangeLocks)
    \cup Calls("EstimateScore", EstimateScoreLocks)
    \cup Calls("BuildCompactionTaskFactory", BuildCompactionTaskFactoryLocks)
    \cup (IF appendable THEN Calls("ABlkApplyDelete", ABlkApplyDeleteLocks) ELSE {})
    \cup Calls("CatalogWrite", CatalogWriteLocks)

\* ---- the threads
Count(ev, n, op, l) == Cardinality({i \in 1..n : ev[i].op = op /\ ev[i].lock = l})

\* the read locks and the write lock a thread holds after its first pc - 1 calls
RdCount(t, l) ==
    Count(thr[t].path.ev, thr[t].pc - 1, "RLock", l)
        - Count(thr[t].path.ev, thr[t].pc - 1, "RUnlock", l)
WrHeld(t, l) ==
    Count(thr[t].path.ev, thr[t].pc - 1, "Lock", l)
        - Count(thr[t].path.ev, thr[t].pc - 1, "Unlock", l) > 0
Holds(t, l) == RdCount(t, l) > 0 \/ WrHeld(t, l)

Returned(t) == thr[t].pc > Len(thr[t].path.ev)
Running(t) == ~Returned(t)
NextEv(t) == thr[t].path.ev[thr[t].pc]
\* a thread that has called Lock and waits for the lock
Pending(t, l) == Running(t) /\ thr[t].want /\ NextEv(t).lock = l

\* sync.RWMutex: a reader waits for the writer that holds the lock and for
\* every writer that waits for it; a writer waits for every holder
MayRLock(l) == \A u \in Threads : ~WrHeld(u, l) /\ ~Pending(u, l)
MayLock(l) == \A u \in Threads : ~Holds(u, l)

Advance(t) ==
    /\ thr' = [thr EXCEPT ![t].pc = @ + 1, ![t].want = FALSE]
    /\ UNCHANGED <<txnVars, replayVars, cls, sc, dedupCall>>

Call(t, call) ==
    /\ Returned(t)
    /\ thr' = [thr EXCEPT ![t] = [path |-> call, pc |-> 1, want |-> FALSE]]
    /\ UNCHANGED <<txnVars, replayVars, cls, sc, dedupCall>>

DoRLock(t) ==
    /\ Running(t) /\ NextEv(t).op = "RLock"
    /\ MayRLock(NextEv(t).lock)
    /\ Advance(t)

DoRUnlock(t) ==
    /\ Running(t) /\ NextEv(t).op = "RUnlock"
    /\ RdCount(t, NextEv(t).lock) > 0
    /\ Advance(t)

RequestLock(t) ==
    /\ Running(t) /\ NextEv(t).op = "Lock"
    /\ ~thr[t].want
    /\ thr' = [thr EXCEPT ![t].want = TRUE]
    /\ UNCHANGED <<txnVars, replayVars, cls, sc, dedupCall>>

DoLock(t) ==
    /\ Running(t) /\ NextEv(t).op = "Lock"
    /\ thr[t].want
    /\ MayLock(NextEv(t).lock)
    /\ Advance(t)

DoUnlock(t) ==
    /\ Running(t) /\ NextEv(t).op = "Unlock"
    /\ WrHeld(t, NextEv(t).lock)
    /\ Advance(t)

InitLock ==
    /\ mode \in BOOLEAN
    /\ thr = [t \in Threads |-> IdleThread]
    /\ cls = OpenState
    /\ sc = NoScore
    /\ dedupCall = NoDedup
    /\ file = EmptyFile
    /\ handles = [h \in Handles |-> Closed]
    /\ blk = FreshBlock
    /\ txns = [t \in Txns |-> IdleTxn]
    /\ clock = 0

NextLock ==
    \E t \in Threads :
        \/ \E call \in AllCalls(mode) : Call(t, call)
        \/ DoRLock(t)
        \/ DoRUnlock(t)
        \/ RequestLock(t)
        \/ DoLock(t)
        \/ DoUnlock(t)

SpecLock == InitLock /\ [][NextLock]_vars

\* ------------------------------------------------- dedup on a sealed block
\* a sealed block file: a sorted key column, nothing replayed
SealedFiles ==
    {f \in Files(FALSE) : f.rows # << >> /\ f.ts = 1 /\ f.updates = << >> /\ f.deletes = {}}

InitDedup ==
    /\ mode = FALSE
    /\ file \in SealedFiles
    /\ \E fp \in SUBSET Keys :
          blk = [newBlock(file, FALSE, << >>) EXCEPT !.index.filter = @ \cup fp]
    /\ handles = [h \in Handles |-> Closed]
    /\ txns = [t \in Txns |-> IdleTxn]
    /\ clock = 1
    /\ thr = [t \in Threads |-> IdleThread]
    /\ cls = OpenState
    /\ sc = NoScore
    /\ dedupCall = NoDedup

\* BatchDedup on the sealed block, called once, by the last transaction
CallBatchDedup(t, pks, rowmask) ==
    /\ Active(t)
    /\ t = MaxTxn
    /\ ~dedupCall.called
    /\ rowmask \subseteq 0..(Len(blk.node) - 1)
    /\ dedupCall' = [called |-> TRUE, ts |-> txns[t].start, pks |-> pks, rowmask |-> rowmask,
                     err |-> BatchDedup(blk, txns[t].start, pks, rowmask)]
    /\ UNCHANGED <<txnVars, replayVars, thr, cls, sc>>

\* RangeDelete of a row of the sealed block by one of the earlier transactions:
\* every row of the column file is visible, no append node covers it
DoSealedDelete(t, row) ==
    /\ MayWrite(t)
    /\ t < MaxTxn
    /\ row < Len(blk.node)
    /\ LET r == RangeDelete(blk, t, txns[t].start, row, row)
       IN  /\ blk' = r.blk
           /\ txns' = Noted(t, "RangeDelete", r.err)
    /\ UNCHANGED <<clock, replayVars, thr, cls, sc, dedupCall>>

NextDedup ==
    \E t \in Txns :
        \/ Begin(t)
        \/ \E row \in 0..(BlockMaxRows - 1) : DoSealedDelete(t, row)
        \/ DoCommit(t)
        \/ DoAbort(t)
        \/ \E pks \in Batches, rowmask \in SUBSET (0..(BlockMaxRows - 1)) :
              CallBatchDedup(t, pks, rowmask)

SpecDedup == InitDedup /\ [][NextDedup]_vars

\* ---------------------------------------------- lookups on a sealed block
\* GetByFilter on the sealed block, called once, by the last transaction;
\* dedupErr is what index.Dedup met inside the index
CallGetByFilter(t, key, dedupErr) ==
    /\ Active(t)
    /\ t = MaxTxn
    /\ ~dedupCall.called
    /\ LET r == blkGetByFilter(blk, txns[t].start, key, dedupErr)
       IN  dedupCall' = [called |-> TRUE, ts |-> txns[t].start, key |-> key,
                         dedupErr |-> dedupErr, offset |-> r.offset, err |-> r.err]
    /\ UNCHANGED <<txnVars, replayVars, thr, cls, sc>>

NextFilter ==
    \E t \in Txns :
        \/ Begin(t)
        \/ \E row \in 0..(BlockMaxRows - 1) : DoSealedDelete(t, row)
        \/ DoCommit(t)
        \/ DoAbort(t)
        \/ \E key \in Keys, dedupErr \in {"", "IndexErr"} : CallGetByFilter(t, key, dedupErr)

SpecFilter == InitDedup /\ [][NextFilter]_vars

\* ------------------------------------------------------ scoring a block
\* what the scorer reads of a block s: appendable, rows (Rows(nil, true)),
\* changes (GetChangeNodeCnt), upd (GetColumnUpdateCnt per column), del
\* (GetDeleteCnt), maxVisible, ckpTs, nice and meta (the catalog entry:
\* "creating" and "dropping" while the transaction that creates or drops the
\* block is active, "live", "dropped" once the drop is committed)
IsDroppedCommitted(s) == s.meta = "dropped"
IsDroppedUncommitted(s) == s.meta = "dropping"
HasActiveTxn(s) == s.meta \in {"creating", "dropping"}

RECURSIVE SumOver(_, _)
SumOver(f, S) ==
    IF S = {} THEN 0
    ELSE LET c == CHOOSE x \in S : TRUE IN f[c] + SumOver(f, S \ {c})

\* colFactor times rows with the last multiplier lowered
colFactor_Dip(cnt, rows) ==
    IF 1000 * cnt < 5 * rows THEN cnt * 10
    ELSE IF 100 * cnt < 10 * rows THEN cnt * 20
    ELSE cnt * 1

\* colFactor times rows: float64(cnt)/float64(rows) against 0.005 and 0.10, and
\* the multiplier of each band
colFactor(cnt, rows) ==
    IF 1000 * cnt < 5 * rows THEN cnt * 10
    ELSE IF 100 * cnt < 10 * rows THEN cnt * 20
    ELSE cnt * 40

\* factor * 100 as the fraction num / den
FactorNum(s) ==
    100 * SumOver([c \in Cols |-> colFactor(s.upd[c], s.rows)], Cols)
        + 100 * s.del * 50 * Cardinality(Cols)
FactorDen(s) == s.rows * Cardinality(Cols)

\* int(factor * 100): the float64 product is truncated; when the exact product
\* is a whole number the float64 one may fall just below it (under)
Truncated(s, under) ==
    LET q == FactorNum(s) \div FactorDen(s)
    IN  IF under /\ q > 0 /\ FactorNum(s) % FactorDen(s) = 0 THEN q - 1 ELSE q

\* estimateRawScore that rounds to the nearest integer
estimateRawScore_Round(s, under) ==
    IF s.rows = ScoreMaxRows /\ s.appendable THEN 100
    ELSE IF s.changes = 0 /\ ~s.appendable THEN 0
    ELSE IF s.changes = 0 /\ s.appendable /\ s.maxVisible <= s.ckpTs THEN 0
    ELSE LET ret == (2 * FactorNum(s) + FactorDen(s)) \div (2 * FactorDen(s))
         IN  IF ret = 0 THEN 1 ELSE ret

\* estimateRawScore that tests the zero cases before the full block
estimateRawScore_ZeroFirst(s, under) ==
    IF s.changes = 0 /\ ~s.appendable THEN 0
    ELSE IF s.changes = 0 /\ s.appendable /\ s.maxVisible <= s.ckpTs THEN 0
    ELSE IF s.rows = ScoreMaxRows /\ s.appendable THEN 100
    ELSE LET ret == Truncated(s, under)
         IN  IF ret = 0 THEN 1 ELSE ret

\* estimateRawScore that lets a zero result stand
estimateRawScore_NoFloor(s, under) ==
    IF s.rows = ScoreMaxRows /\ s.appendable THEN 100
    ELSE IF s.changes = 0 /\ ~s.appendable THEN 0
    ELSE IF s.changes = 0 /\ s.appendable /\ s.maxVisible <= s.ckpTs THEN 0
    ELSE Truncated(s, under)

estimateRawScore(s, under) ==
    IF s.rows = ScoreMaxRows /\ s.appendable THEN 100
    ELSE IF s.changes = 0 /\ ~s.appendable THEN 0
    ELSE IF s.changes = 0 /\ s.appendable /\ s.maxVisible <= s.ckpTs THEN 0
    ELSE LET ret == Truncated(s, under)
         IN  IF ret = 0 THEN 1 ELSE ret

resetNice(s) == [s EXCEPT !.nice = 0]

\* EstimateScore that leaves nice out
EstimateScore_NoNice(s, under) ==
    LET score == estimateRawScore(s, under)
    IN  IF s.appendable /\ s.rows = ScoreMaxRows
        THEN [score |-> IF IsDroppedCommitted(s) \/ IsDroppedUncommitted(s) THEN 0 ELSE 100,
              blk |-> s]
        ELSE IF score = 0 THEN [score |-> 0, blk |-> resetNice(s)]
        ELSE [score |-> score, blk |-> s]

\* EstimateScore that resets nice when it answers 0 for a dropped full block
EstimateScore_DropResets(s, under) ==
    LET score == estimateRawScore(s, under)
        dropped == IsDroppedCommitted(s) \/ IsDroppedUncommitted(s)
    IN  IF s.appendable /\ s.rows = ScoreMaxRows
        THEN [score |-> IF dropped THEN 0 ELSE 100,
              blk |-> IF dropped THEN resetNice(s) ELSE s]
        ELSE IF score = 0 THEN [score |-> 0, blk |-> resetNice(s)]
        ELSE [score |-> score + s.nice, blk |-> s]

\* EstimateScore without the early return for a full appendable block
EstimateScore_AlwaysAdd(s, under) ==
    LET score == estimateRawScore(s, under)
    IN  IF score = 0 THEN [score |-> 0, blk |-> resetNice(s)]
        ELSE [score |-> score + s.nice, blk |-> s]

\* EstimateScore: the score and the block it leaves
EstimateScore(s, under) ==
    LET score == estimateRawScore(s, under)
    IN  IF s.appendable /\ s.rows = ScoreMaxRows
        THEN [score |-> IF IsDroppedCommitted(s) \/ IsDroppedUncommitted(s) THEN 0 ELSE 100,
              blk |-> s]
        ELSE IF score = 0 THEN [score |-> 0, blk |-> resetNice(s)]
        ELSE [score |-> score + s.nice, blk |-> s]

RunCalibration(s, under) ==
    IF estimateRawScore(s, under) = 0 THEN s ELSE [s EXCEPT !.nice = @ + 1]

\* the row counts of the scored blocks: empty, each band of the update ratio
\* with one to three changes, and full
RowChoices == {0, 1, 2, 10, 11, 25, 200, 201, ScoreMaxRows}

\* a block as open leaves it: rows are committed (maxVisible > 0) and nothing
\* is checkpointed beyond them; a sealed block holds rows
ScoredBlocks ==
    {[on |-> TRUE, appendable |-> a, rows |-> rows, changes |-> 0,
      upd |-> [c \in Cols |-> 0], del |-> 0, maxVisible |-> mv, ckpTs |-> ckp,
      nice |-> 0, meta |-> "live", op |-> "", prev |-> 0, score |-> 0] :
        a \in BOOLEAN, rows \in RowChoices, mv \in 0..1, ckp \in 0..1}

InitScore ==
    /\ sc \in {s \in ScoredBlocks :
                ((s.rows = 0) = (s.maxVisible = 0))
                    /\ (s.ckpTs <= s.maxVisible)
                    /\ (s.appendable \/ s.rows > 0)}
    /\ mode = sc.appendable
    /\ file = EmptyFile
    /\ handles = [h \in Handles |-> Closed]
    /\ blk = FreshBlock
    /\ txns = [t \in Txns |-> IdleTxn]
    /\ clock = 0
    /\ thr = [t \in Threads |-> IdleThread]
    /\ cls = OpenState
    /\ dedupCall = NoDedup

scoreFrame == <<txnVars, replayVars, thr, cls, dedupCall>>

Changes(s) == SumOver(s.upd, Cols) + s.del

\* Update of one more cell of column c; prev is the raw score before it
ScoreUpdate(c, under) ==
    /\ sc.rows > 0 /\ Changes(sc) < MaxChanges
    /\ sc' = [sc EXCEPT !.upd[c] = @ + 1, !.changes = @ + 1, !.score = 0,
                        !.op = "Update", !.prev = estimateRawScore(sc, under)]
    /\ UNCHANGED scoreFrame

\* RangeDelete of one more row
ScoreRangeDelete(under) ==
    /\ sc.del < sc.rows /\ Changes(sc) < MaxChanges
    /\ sc' = [sc EXCEPT !.del = @ + 1, !.changes = @ + 1, !.score = 0,
                        !.op = "RangeDelete", !.prev = estimateRawScore(sc, under)]
    /\ UNCHANGED scoreFrame

\* a commit of changes moves maxVisible
ScoreCommit ==
    /\ sc.changes > 0 /\ sc.maxVisible < MaxScoreTs
    /\ sc' = [sc EXCEPT !.maxVisible = @ + 1, !.op = "Commit", !.prev = 0, !.score = 0]
    /\ UNCHANGED scoreFrame

\* SetMaxCheckpointTS stores the timestamp it is given
SetMaxCheckpointTS(ts) ==
    /\ sc' = [sc EXCEPT !.ckpTs = ts, !.op = "SetMaxCheckpointTS", !.prev = 0, !.score = 0]
    /\ UNCHANGED scoreFrame

\* a transaction drops the block in the catalog
ScoreDrop ==
    /\ sc.meta = "live"
    /\ sc' = [sc EXCEPT !.meta = "dropping", !.op = "Drop", !.prev = 0, !.score = 0]
    /\ UNCHANGED scoreFrame

CallRunCalibration(under) ==
    /\ sc.nice < MaxNice \/ estimateRawScore(sc, under) = 0
    /\ sc' = [RunCalibration(sc, under) EXCEPT !.op = "RunCalibration", !.prev = 0, !.score = 0]
    /\ UNCHANGED scoreFrame

CallEstimateScore(under) ==
    /\ LET r == EstimateScore(sc, under)
       IN  sc' = [r.blk EXCEPT !.op = "EstimateScore", !.prev = 0, !.score = r.score]
    /\ UNCHANGED scoreFrame

NextScore ==
    \/ \E c \in Cols, under \in BOOLEAN : ScoreUpdate(c, under)
    \/ \E under \in BOOLEAN : ScoreRangeDelete(under)
    \/ ScoreCommit
    \/ \E ts \in 0..MaxScoreTs : SetMaxCheckpointTS(ts)
    \/ ScoreDrop
    \/ \E under \in BOOLEAN : CallRunCalibration(under)
    \/ \E under \in BOOLEAN : CallEstimateScore(under)

SpecScore == InitScore /\ [][NextScore]_vars

\* ------------------------------------------- handing a block to compaction
\* the answer of BuildCompactionTaskFactory for block s, dropped and inTxn being
\* what it read of the catalog entry under the read lock of meta: the factory
\* ("" for none) and the scopes; a full appendable block is flushed like the
\* others
BuildCompactionTaskFactory_FlushFull(s, dropped, inTxn) ==
    IF dropped \/ inTxn THEN [factory |-> "", scopes |-> << >>]
    ELSE IF ~s.appendable
    THEN [factory |-> "CompactBlock", scopes |-> <<s.id>>]
    ELSE [factory |-> "CompactABlock", scopes |-> <<s.id>>]

BuildCompactionTaskFactory(s, dropped, inTxn) ==
    IF dropped \/ inTxn THEN [factory |-> "", scopes |-> << >>]
    ELSE IF ~s.appendable \/ (s.appendable /\ s.rows = ScoreMaxRows)
    THEN [factory |-> "CompactBlock", scopes |-> <<s.id>>]
    ELSE [factory |-> "CompactABlock", scopes |-> <<s.id>>]

\* the steps of BuildCompactionTaskFactory with the lock released at the end
BuildSteps_LateUnlock == <<"RLock", "Decide", "RUnlock">>

\* the steps of BuildCompactionTaskFactory: the entry is read under the read
\* lock of meta, the lock is released, then the call refuses or reads the row
\* count and builds the factory
BuildSteps == <<"RLock", "RUnlock", "Decide">>

\* no call of BuildCompactionTaskFactory: at is the step the call is at, held
\* the read lock of meta, dropped and inTxn what the call read
NoBuild == [at |-> 0, held |-> FALSE, dropped |-> FALSE, inTxn |-> FALSE]
NoFactory ==
    [called |-> FALSE, factory |-> "", scopes |-> << >>, dropped |-> FALSE,
     inTxn |-> FALSE, rows |-> 0, held |-> FALSE]

\* the blocks handed to compaction: created by a transaction that may still be
\* active, sealed blocks with rows on disk, appendable blocks empty to full
CompactedBlocks ==
    {[on |-> TRUE, appendable |-> a, rows |-> rows, changes |-> 0,
      upd |-> [c \in Cols |-> 0], del |-> 0,
      maxVisible |-> IF rows = 0 THEN 0 ELSE 1,
      ckpTs |-> IF a THEN 0 ELSE 1,
      nice |-> 0, meta |-> meta, op |-> "", prev |-> 0, score |-> 0,
      id |-> id, bc |-> NoBuild, res |-> NoFactory] :
        a \in BOOLEAN, rows \in {0, 1, ScoreMaxRows}, meta \in {"creating", "live"},
        id \in 1..NumBlocks}

InitCompact ==
    /\ sc \in {s \in CompactedBlocks : s.appendable \/ s.rows > 0}
    /\ mode = sc.appendable
    /\ file = EmptyFile
    /\ handles = [h \in Handles |-> Closed]
    /\ blk = FreshBlock
    /\ txns = [t \in Txns |-> IdleTxn]
    /\ clock = 0
    /\ thr = [t \in Threads |-> IdleThread]
    /\ cls = OpenState
    /\ dedupCall = NoDedup

\* the catalog changes the entry under the write lock of meta
CatalogCommit ==
    /\ ~sc.bc.held
    /\ sc.meta \in {"creating", "dropping"}
    /\ sc' = [sc EXCEPT !.meta = IF @ = "creating" THEN "live" ELSE "dropped",
                        !.op = "Commit"]
    /\ UNCHANGED scoreFrame

CatalogDrop ==
    /\ ~sc.bc.held
    /\ sc.meta = "live"
    /\ sc' = [sc EXCEPT !.meta = "dropping", !.op = "Drop"]
    /\ UNCHANGED scoreFrame

CatalogAbort ==
    /\ ~sc.bc.held
    /\ sc.meta = "dropping"
    /\ sc' = [sc EXCEPT !.meta = "live", !.op = "Abort"]
    /\ UNCHANGED scoreFrame

\* appends fill the block
CompactFill ==
    /\ sc.appendable /\ sc.rows < ScoreMaxRows
    /\ sc' = [sc EXCEPT !.rows = ScoreMaxRows, !.maxVisible = 1, !.op = "Append"]
    /\ UNCHANGED scoreFrame

BuildCall ==
    /\ sc.bc.at = 0
    /\ sc' = [sc EXCEPT !.bc = [NoBuild EXCEPT !.at = 1], !.res = NoFactory,
                        !.op = "BuildCompactionTaskFactory"]
    /\ UNCHANGED scoreFrame

\* the next step of the call
BuildStep ==
    /\ sc.bc.at > 0
    /\ LET step == BuildSteps[sc.bc.at]
           at == IF sc.bc.at = Len(BuildSteps) THEN 0 ELSE sc.bc.at + 1
           r == BuildCompactionTaskFactory(sc, sc.bc.dropped, sc.bc.inTxn)
       IN  sc' = CASE step = "RLock" ->
                       [sc EXCEPT !.bc = [at |-> at, held |-> TRUE,
                                          dropped |-> IsDroppedCommitted(sc),
                                          inTxn |-> HasActiveTxn(sc)]]
                   [] step = "RUnlock" ->
                       [sc EXCEPT !.bc.at = at, !.bc.held = FALSE]
                   [] OTHER ->
                       [sc EXCEPT !.bc.at = at,
                                  !.res = [called |-> TRUE, factory |-> r.factory,
                                           scopes |-> r.scopes,
                                           dropped |-> sc.bc.dropped,
                                           inTxn |-> sc.bc.inTxn,
                                           rows |-> sc.rows, held |-> sc.bc.held]]
    /\ UNCHANGED scoreFrame

NextCompact ==
    \/ CatalogCommit
    \/ CatalogDrop
    \/ CatalogAbort
    \/ CompactFill
    \/ BuildCall
    \/ BuildStep
    \/ \E under \in BOOLEAN : CallRunCalibration(under)
    \/ \E under \in BOOLEAN : CallEstimateScore(under)

SpecCompact == InitCompact /\ [][NextCompact]_vars

\* ------------------------------------------------------ destroying a block
\* ClosedState.TryClose: the first caller flips the latch and is told so
TryClose(closed) == [closed |-> TRUE, won |-> ~closed]

\* Destroy without the latch: every caller goes on to release
DestroyEnter_NoLatch(won) == "node"

\* Destroy: where a caller goes after TryClose
DestroyEnter(won) == IF ~won THEN "" ELSE "node"

\* Destroy: where the caller goes after the release step pc, which failed (err)
\* or not; "" is the return
DestroyNext(pc, err) ==
    CASE pc = "node" -> IF err THEN "" ELSE "colFiles"
      [] pc = "colFiles" -> "index"
      [] pc = "index" -> IF err THEN "" ELSE "fileClose"
      [] pc = "fileClose" -> IF err THEN "" ELSE "fileDestroy"
      [] OTHER -> ""

\* the block that is destroyed: two committed rows, sealed or not
SharedFile == [rows |-> <<1, 2>>, ts |-> 1, updates |-> << >>, deletes |-> {}]

\* the callers that hold a pin on the node taken before Destroy was called
PinnedEarly == {t \in Closers : cls.thr[t].op = "read" /\ cls.thr[t].early}

InitClose ==
    /\ mode \in BOOLEAN
    /\ blk = newBlock(SharedFile, mode, << >>)
    /\ file = SharedFile
    /\ handles = [h \in Handles |-> Closed]
    /\ txns = [t \in Txns |-> IdleTxn]
    /\ clock = 1
    /\ thr = [t \in Threads |-> IdleThread]
    /\ cls = OpenState
    /\ sc = NoScore
    /\ dedupCall = NoDedup

closeFrame == <<txns, clock, replayVars, thr, sc, dedupCall>>

CallDestroy(t) ==
    /\ cls.thr[t].op = "" /\ ~cls.thr[t].did
    /\ cls' = [cls EXCEPT !.thr[t] = [op |-> "Destroy", pc |-> "TryClose",
                                      early |-> FALSE, did |-> TRUE]]
    /\ UNCHANGED <<blk, closeFrame>>

DestroyTryClose(t) ==
    /\ cls.thr[t].op = "Destroy" /\ cls.thr[t].pc = "TryClose"
    /\ LET r == TryClose(cls.closed)
           pc == DestroyEnter(r.won)
       IN  cls' = [cls EXCEPT !.closed = r.closed,
                              !.won = IF r.won THEN @ \cup {t} ELSE @,
                              !.lost = IF r.won THEN @ ELSE @ \cup {t},
                              !.thr[t].pc = pc,
                              !.thr[t].op = IF pc = "" THEN "" ELSE @]
    /\ UNCHANGED <<blk, closeFrame>>

\* one release step of Destroy; a resource that is nil is passed over, and
\* Unref cannot fail
DestroyRelease(t, err) ==
    /\ cls.thr[t].op = "Destroy" /\ cls.thr[t].pc \in Range(Resources)
    /\ LET res == cls.thr[t].pc
           isNil == res = "node" /\ ~blk.appendable
           failed == err /\ ~isNil /\ res # "colFiles"
           pc == DestroyNext(res, failed)
       IN  cls' = [cls EXCEPT !.steps[res] = IF isNil THEN @ ELSE @ + 1,
                              !.touched = IF isNil THEN @ ELSE @ \cup {t},
                              !.thr[t].pc = pc,
                              !.thr[t].op = IF pc = "" THEN "" ELSE @]
    /\ UNCHANGED <<blk, closeFrame>>

\* node.DoWithPin of getVectorCopy and of the delete listener
Pin(t) ==
    /\ blk.appendable
    /\ cls.thr[t].op = ""
    /\ cls' = [cls EXCEPT !.thr[t].op = "read", !.thr[t].early = ~cls.closed]
    /\ UNCHANGED <<blk, closeFrame>>

Unpin(t) ==
    /\ cls.thr[t].op = "read"
    /\ cls' = [cls EXCEPT !.thr[t].op = "", !.thr[t].early = FALSE]
    /\ UNCHANGED <<blk, closeFrame>>

\* a public operation of caller t, with what it answered
Answer(t, op, r) ==
    /\ cls.thr[t].op = ""
    /\ cls.nops < MaxClosedOps
    /\ blk' = r.blk
    /\ cls' = [cls EXCEPT !.nops = @ + 1,
                          !.log = [op |-> op, afterClose |-> cls.closed,
                                   err |-> r.err, changed |-> r.blk # blk]]
    /\ UNCHANGED closeFrame

PublicUpdate(t, row, colIdx) ==
    Answer(t, "Update", Update(blk, t, clock + 1, row, colIdx, UpdVal(t)))

PublicRangeDelete(t, row) ==
    Answer(t, "RangeDelete", RangeDelete(blk, t, clock + 1, row, row))

PublicGetValue(t, row, colIdx) ==
    Answer(t, "GetValue", [blk |-> blk, err |-> GetValue(blk, clock + 1, row, colIdx).err])

PublicGetColumnDataById(t, colIdx) ==
    Answer(t, "GetColumnDataById",
           [blk |-> blk,
            err |-> IF GetColumnDataById(blk, clock + 1, colIdx).nil THEN "nil" ELSE ""])

NextClose ==
    \E t \in Closers :
        \/ CallDestroy(t)
        \/ DestroyTryClose(t)
        \/ \E err \in BOOLEAN : DestroyRelease(t, err)
        \/ Pin(t)
        \/ Unpin(t)
        \/ \E row \in 0..(Len(SharedFile.rows) - 1), colIdx \in UpdCols :
              PublicUpdate(t, row, colIdx)
        \/ \E row \in 0..(Len(SharedFile.rows) - 1) : PublicRangeDelete(t, row)
        \/ \E row \in 0..(Len(SharedFile.rows) - 1), colIdx \in UpdCols :
              PublicGetValue(t, row, colIdx)
        \/ \E colIdx \in UpdCols : PublicGetColumnDataById(t, colIdx)

SpecClose == InitClose /\ [][NextClose]_vars

\* ------------------------------------------------------ properties of Spec
Rows == 0..(BlockMaxRows - 1)
\* the timestamps a reader can tell apart: nothing is committed after clock
ReadTs == 0..(clock + 1)
NodeRowSet(b) == 0..(Len(b.node) - 1)

\* the row offsets a column read at ts returns
ViewRows(b, ts, colIdx) == Range(GetColumnDataById(b, ts, colIdx).AppliedRows)

\* rows covered by a delete whose commit timestamp lies in (t1, t2]
DeletedWithin(b, t1, t2) ==
    UNION {b.mvcc.deletes[i].rows :
             i \in {j \in Indices(b.mvcc.deletes) :
                      b.mvcc.deletes[j].commit > t1 /\ b.mvcc.deletes[j].commit <= t2}}

\* C1: snapshot consistency. For any two timestamps T1 < T2 and any column,
\* every row a reader at T1 gets is also returned to a reader at T2 or is
\* covered by a delete committed in (T1, T2].
SnapshotConsistency ==
    \A c \in Cols :
        LET seen == [t \in ReadTs |-> ViewRows(blk, t, c)]
        IN  \A t1, t2 \in ReadTs :
                t1 < t2 => seen[t1] \subseteq (seen[t2] \cup DeletedWithin(blk, t1, t2))

\* C1 witness: a read at T1 returns a row that a read at a later T2 does not,
\* the row being deleted in between, while another row is read at both.
SnapshotConsistencyWitness ==
    \E t1, t2 \in ReadTs :
        /\ t1 < t2
        /\ ViewRows(blk, t1, PKCol) \ ViewRows(blk, t2, PKCol) # {}
        /\ ViewRows(blk, t1, PKCol) \cap ViewRows(blk, t2, PKCol) # {}
        /\ ViewRows(blk, t2, PKCol) \ ViewRows(blk, t1, PKCol) # {}

\* the committed updates of (row, c) that a reader at ts sees
UpdatesSeen(b, row, c, ts) ==
    {i \in Indices(b.mvcc.chains[c]) :
        /\ b.mvcc.chains[c][i].commit # 0
        /\ b.mvcc.chains[c][i].commit <= ts
        /\ row \in DOMAIN b.mvcc.chains[c][i].vals}

\* the values of the updates with the greatest commit timestamp among them
LastWritten(b, row, c, ts) ==
    LET U == UpdatesSeen(b, row, c, ts)
    IN  {b.mvcc.chains[c][i].vals[row] :
            i \in {j \in U : \A k \in U : b.mvcc.chains[c][k].commit <= b.mvcc.chains[c][j].commit}}

ActiveAt(b, row, ts) == IsVisibleLocked(b.mvcc, row, ts) /\ ~IsDeletedLocked(b.mvcc, row, ts)

\* C2: last writer wins. For a row that is visible and not deleted at ts,
\* GetValue returns the value of the committed update of (row, column) with
\* the greatest commit timestamp <= ts, and the base value when there is none.
LastWriterWins ==
    \A ts \in ReadTs : \A row \in NodeRowSet(blk) : \A c \in Cols :
        ActiveAt(blk, row, ts) =>
            LET got == GetValue(blk, ts, row, c)
            IN  /\ got.err = ""
                /\ IF UpdatesSeen(blk, row, c, ts) = {}
                   THEN got.v = BaseVal(blk.node[row + 1], c)
                   ELSE got.v \in LastWritten(blk, row, c, ts)

\* C2 witness: one cell with two committed updates of different values by
\* different transactions, read before the first, between them and after both.
LastWriterWinsWitness ==
    \E row \in NodeRowSet(blk) : \E c \in Cols : \E i, j \in Indices(blk.mvcc.chains[c]) :
        LET n == blk.mvcc.chains[c][i]
            m == blk.mvcc.chains[c][j]
        IN  /\ n.commit # 0 /\ m.commit # 0 /\ n.commit < m.commit
            /\ row \in DOMAIN n.vals /\ row \in DOMAIN m.vals
            /\ n.vals[row] # m.vals[row]
            /\ ActiveAt(blk, row, n.commit - 1)
            /\ GetValue(blk, n.commit - 1, row, c).v = BaseVal(blk.node[row + 1], c)
            /\ GetValue(blk, n.commit, row, c).v = n.vals[row]
            /\ GetValue(blk, m.commit, row, c).v = m.vals[row]

WrittenRows(b, t) ==
    {row \in Rows :
        \/ \E c \in Cols : \E i \in Indices(b.mvcc.chains[c]) :
              b.mvcc.chains[c][i].txn = t /\ row \in DOMAIN b.mvcc.chains[c][i].vals
        \/ \E i \in Indices(b.mvcc.deletes) :
              b.mvcc.deletes[i].txn = t /\ row \in b.mvcc.deletes[i].rows}

\* two committed transactions whose lifetimes overlap
Concurrent(t1, t2) ==
    /\ txns[t1].state = "committed" /\ txns[t2].state = "committed"
    /\ txns[t1].start < txns[t2].commit
    /\ txns[t2].start < txns[t1].commit

\* C4: write-write conflict. Two concurrent transactions that wrote the same
\* row offset (an update of any column, or a delete covering it) never both
\* commit.
WWConflictExclusive ==
    \A t1, t2 \in Txns :
        (t1 # t2 /\ Concurrent(t1, t2)) => WrittenRows(blk, t1) \cap WrittenRows(blk, t2) = {}

\* the cells a transaction has updated and the rows it has deleted
UpdatedCells(b, t) ==
    {cell \in Rows \X Cols :
        \E i \in Indices(b.mvcc.chains[cell[2]]) :
            b.mvcc.chains[cell[2]][i].txn = t /\ cell[1] \in DOMAIN b.mvcc.chains[cell[2]][i].vals}
DeletedRows(b, t) ==
    UNION {b.mvcc.deletes[i].rows : i \in {j \in Indices(b.mvcc.deletes) : b.mvcc.deletes[j].txn = t}}

\* what the fine-grained path does keep: two concurrent transactions never
\* both commit an update of the same cell, nor a delete of a row the other
\* has written
WWConflictSameCell ==
    \A t1, t2 \in Txns :
        (t1 # t2 /\ Concurrent(t1, t2)) =>
            /\ UpdatedCells(blk, t1) \cap UpdatedCells(blk, t2) = {}
            /\ DeletedRows(blk, t1) \cap WrittenRows(blk, t2) = {}

OwnRow(b, t, row) ==
    \E i \in Indices(b.mvcc.appends) :
        /\ b.mvcc.appends[i].txn = t
        /\ b.mvcc.appends[i].start <= row
        /\ row < b.mvcc.appends[i].start + b.mvcc.appends[i].len

\* C5: reader isolation on appends. A column read by a transaction returns
\* only rows of appends committed at a timestamp <= its start timestamp (or
\* rows the transaction appended itself), never the rows of an append that
\* another transaction has not committed.
ReaderIsolation ==
    \A t \in Txns : \A c \in Cols :
        txns[t].state # "idle" =>
            \A row \in ViewRows(blk, txns[t].start, c) :
                IsVisibleLocked(blk.mvcc, row, txns[t].start) \/ OwnRow(blk, t, row)

\* C6 on a running block: a row covered by a committed delete is NotFound for
\* every reader at or after the delete's commit timestamp.
DeletedIsNotFound(b, tss) ==
    \A i \in Indices(b.mvcc.deletes) : \A row \in b.mvcc.deletes[i].rows :
        \A ts \in tss : \A c \in Cols :
            (b.mvcc.deletes[i].commit # 0 /\ ts >= b.mvcc.deletes[i].commit)
                => GetValue(b, ts, row, c).err = "NotFound"

RunningDeletedIsNotFound == DeletedIsNotFound(blk, ReadTs)

\* C6 (reopened blocks): a row of the on-disk delete mask is NotFound for
\* GetValue at every timestamp from ckpTs on, on appendable and on immutable
\* blocks.
ReplayedDeletedIsNotFound ==
    \A h \in Handles :
        handles[h].open =>
            \A row \in file.deletes, c \in Cols, ts \in file.ts..(file.ts + 1) :
                GetValue(handles[h].blk, ts, row, c).err = "NotFound"

\* ---- C9
ActiveKeys(b) ==
    IF b.appendable THEN {k \in Keys : GetActiveRow(b.index, k) # NoRow} ELSE b.index.filter

\* C9: two opens of the same block file give the same maxVisible, the same
\* active keys in the PK index and the same view of every column at every
\* timestamp up to ckpTs, whatever order the update masks were iterated in.
ReplayIdempotent ==
    \A g, h \in Handles :
        handles[g].open /\ handles[h].open =>
            /\ GetMaxVisibleTS(handles[g].blk) = GetMaxVisibleTS(handles[h].blk)
            /\ ActiveKeys(handles[g].blk) = ActiveKeys(handles[h].blk)
            /\ \A c \in Cols, ts \in 0..file.ts :
                  GetColumnDataById(handles[g].blk, ts, c) = GetColumnDataById(handles[h].blk, ts, c)

ReplayIdempotentWitness ==
    \E g, h \in Handles :
        /\ handles[g].open /\ handles[h].open
        /\ handles[g].order # handles[h].order
        /\ mode /\ file.deletes # {}
        /\ \E c \in Cols :
              \E v \in Range(GetColumnDataById(handles[g].blk, file.ts, c).AppliedVec) :
                  v >= DiskVal(0)

\* ---- C10
LiveKeysOnDisk == {file.rows[r + 1] : r \in (0..(Len(file.rows) - 1)) \ file.deletes}

\* C10: after an appendable block is reopened, the keys its index reports as
\* active are exactly the keys of the on-disk rows outside the delete mask.
ReplayedIndexMembership ==
    \A h \in Handles :
        handles[h].open /\ mode => ActiveKeys(handles[h].blk) = LiveKeysOnDisk

\* a reopened block whose file holds a deleted row and a later live row of the
\* same key, and a key whose every row is deleted
ReplayedIndexMembershipWitness ==
    \E h \in Handles :
        /\ handles[h].open /\ mode
        /\ \E i, j \in Indices(file.rows) :
              /\ i < j /\ file.rows[i] = file.rows[j]
              /\ (i - 1) \in file.deletes /\ (j - 1) \notin file.deletes
        /\ \E k \in Range(file.rows) : k \notin LiveKeysOnDisk
        /\ ActiveKeys(handles[h].blk) = LiveKeysOnDisk

\* ---- C7
\* C7: a thread that has returned from an operation of the block holds neither
\* the MVCC handle lock, nor a column chain lock, nor the catalog meta lock
\* (nor the index lock), whatever exit it left by.
LockRelease ==
    \A t \in Threads : Returned(t) => \A l \in Locks : ~Holds(t, l)

\* GetValue has left by its TxnInternalErr return and another thread writes
\* under the MVCC handle lock
LockReleaseWitness ==
    \E t, u \in Threads :
        /\ Returned(t)
        /\ thr[t].path.op = "GetValue" /\ "TxnInternalErr" \in thr[t].path.exit
        /\ WrHeld(u, mvccLock)

\* ---- C8
CanStep(t) ==
    /\ Running(t)
    /\ CASE NextEv(t).op = "RLock" -> MayRLock(NextEv(t).lock)
         [] NextEv(t).op = "RUnlock" -> RdCount(t, NextEv(t).lock) > 0
         [] NextEv(t).op = "Lock" -> ~thr[t].want \/ MayLock(NextEv(t).lock)
         [] NextEv(t).op = "Unlock" -> WrHeld(t, NextEv(t).lock)

Acquires(t) == Running(t) /\ NextEv(t).op \in {"RLock", "Lock"}

\* C8: a thread asks only for locks that rank after every lock it holds in the
\* order meta -> ClosedState -> MVCC handle -> column chain -> index, never
\* asks for the MVCC write lock while it holds the MVCC read lock, and the
\* running threads are never all blocked.
LockOrder ==
    /\ \A t \in Threads :
          Acquires(t) =>
              \A l \in Locks : Holds(t, l) => Rank(l) < Rank(NextEv(t).lock)
    /\ \A t \in Threads :
          Running(t) /\ NextEv(t) = Lock(mvccLock) => RdCount(t, mvccLock) = 0
    /\ (\E t \in Threads : Running(t)) => \E t \in Threads : CanStep(t)

\* the listener waits for the MVCC write lock while a fine-grained update
\* holds the MVCC read lock and waits for a column chain lock that a reader
\* holds
LockOrderWitness ==
    \E t, u \in Threads :
        /\ thr[t].path.op = "ABlkApplyDelete" /\ Pending(t, mvccLock)
        /\ thr[u].path.op = "Update" /\ RdCount(u, mvccLock) > 0
        /\ Running(u) /\ NextEv(u).op = "Lock" /\ NextEv(u).lock.kind = "chain"
\* ---- C11
\* C11: however many callers run Destroy concurrently, each release step (node
\* close, column-file unref, index destroy, block-file close, block-file
\* destroy) runs at most once, all of them by the one caller that took the
\* latch; the other callers touch nothing
DestroyOnce ==
    /\ \A r \in Range(Resources) : cls.steps[r] <= 1
    /\ Cardinality(cls.won) <= 1
    /\ cls.touched \subseteq cls.won
    /\ cls.lost # {} => Cardinality(cls.won) = 1

\* two callers lost the latch and the third ran every release step
DestroyOnceWitness ==
    /\ Cardinality(cls.lost) = 2
    /\ \A r \in Range(Resources) : cls.steps[r] = 1
    /\ \A t \in Closers : cls.thr[t].op = ""

\* ---- C12
\* C12: a public operation begun after Destroy took the latch answers Closed
\* and leaves the block as it was
ClosedRejectsOps ==
    cls.log.afterClose => cls.log.err = "Closed" /\ ~cls.log.changed

\* ---- C13
\* C13: the node and the column files are not released while a caller still
\* holds a pin it took before Destroy was called
ReleaseAfterLastPin ==
    cls.steps["node"] > 0 \/ cls.steps["colFiles"] > 0 => PinnedEarly = {}

\* ---- C14
\* C14: when a key was deleted and inserted again, GetByFilter answers the old
\* row at every timestamp at which the old row is live (before the delete) and
\* the new row at every timestamp at which the new row is live
DeleteThenReinsert ==
    \A r1, r2 \in NodeRowSet(blk) : \A ts \in ReadTs :
        (r1 < r2 /\ blk.node[r1 + 1] = blk.node[r2 + 1])
            => /\ ActiveAt(blk, r1, ts)
                    => ablkGetByFilter(blk, ts, blk.node[r1 + 1]) = [offset |-> r1, err |-> ""]
               /\ ActiveAt(blk, r2, ts)
                    => ablkGetByFilter(blk, ts, blk.node[r2 + 1]) = [offset |-> r2, err |-> ""]

\* ---- C15
\* the rows of a sealed block that hold key and are not deleted at ts
LiveRowsOf(b, key, ts) ==
    {r \in 0..(Len(b.node) - 1) : b.node[r + 1] = key /\ ~IsDeletedLocked(b.mvcc, r, ts)}

\* C15 (as the code has it): BatchDedup on a sealed block answers Duplicate
\* exactly when some candidate key is the key of a row not deleted at startTs,
\* whatever the rowmask, and Ok otherwise; a key the filter lets through without
\* being in the column never gives Duplicate
SealedDedupExact ==
    \A t \in Txns : \A pks \in Batches : \A rowmask \in SUBSET (0..(Len(blk.node) - 1)) :
        Active(t) =>
            LET ts == txns[t].start
                err == BatchDedup(blk, ts, pks, rowmask)
            IN  /\ err \in {"", "Duplicate"}
                /\ err = "Duplicate" <=> \E i \in Indices(pks) : LiveRowsOf(blk, pks[i], ts) # {}

\* a call on a block with a row deleted at the start timestamp that answered
\* Duplicate though the rowmask holds the row of the candidate
SealedDedupExactWitness ==
    /\ dedupCall.called
    /\ dedupCall.err = "Duplicate"
    /\ \E i \in Indices(dedupCall.pks) :
          /\ LiveRowsOf(blk, dedupCall.pks[i], dedupCall.ts) # {}
          /\ LiveRowsOf(blk, dedupCall.pks[i], dedupCall.ts) \subseteq dedupCall.rowmask
    /\ \E r \in 0..(Len(blk.node) - 1) : IsDeletedLocked(blk.mvcc, r, dedupCall.ts)

\* C15 (as stated): only the candidates whose row is outside the rowmask count
SealedDedupHonoursRowmask ==
    \A t \in Txns : \A pks \in Batches : \A rowmask \in SUBSET (0..(Len(blk.node) - 1)) :
        Active(t) =>
            (BatchDedup(blk, txns[t].start, pks, rowmask) = "Duplicate"
                <=> \E i \in Indices(pks) : LiveRowsOf(blk, pks[i], txns[t].start) \ rowmask # {})

\* ---- C16
\* the batches none of whose keys is in the active map
Inactive(b) == {pks \in Batches : \A i \in Indices(pks) : GetActiveRow(b.index, pks[i]) = NoRow}

\* C16: on an appendable block, for a batch with no key in the active map,
\* BatchDedup answers Ok when startTs is above the maximum delete timestamp of
\* the index; otherwise it answers WWConflict exactly when some key of the batch
\* has a tombstone at or before startTs, and Ok when none has
TombstoneCheck ==
    \A ts \in ReadTs : \A pks \in Inactive(blk) :
        LET err == BatchDedup(blk, ts, pks, {})
            hit == \E i \in Indices(pks) :
                      blk.index.tomb[pks[i]] # 0 /\ blk.index.tomb[pks[i]] <= ts
        IN  IF ts > blk.index.maxDeleteTS THEN err = ""
            ELSE (hit => err = "WWConflict") /\ (~hit => err = "")

\* a deleted key that is a conflict at the timestamp of its tombstone and is
\* let through above it, and a key without tombstone that is let through below
TombstoneCheckWitness ==
    \E k1, k2 \in Keys :
        /\ <<k1>> \in Inactive(blk) /\ <<k2>> \in Inactive(blk)
        /\ blk.index.tomb[k1] = blk.index.maxDeleteTS
        /\ blk.index.tomb[k1] # 0
        /\ blk.index.tomb[k2] = 0
        /\ BatchDedup(blk, blk.index.maxDeleteTS, <<k1>>, {}) = "WWConflict"
        /\ BatchDedup(blk, blk.index.maxDeleteTS + 1, <<k1>>, {}) = ""
        /\ BatchDedup(blk, blk.index.maxDeleteTS, <<k2>>, {}) = ""
        /\ \E t \in Txns : txns[t].state = "committed" /\ txns[t].commit > blk.index.maxDeleteTS

\* ---- C17
\* C17: an operation that adds an updated cell to some column, or a deleted row,
\* leaves estimateRawScore at or above the value it had before the operation
ScoreMonotone ==
    sc.on /\ sc.op \in {"Update", "RangeDelete"}
        => \A under \in BOOLEAN : estimateRawScore(sc, under) >= sc.prev

\* a third update that takes a score already above the floor across a band
ScoreMonotoneWitness ==
    /\ sc.on /\ sc.op = "Update"
    /\ sc.prev > 1 /\ sc.prev < 100
    /\ Changes(sc) = MaxChanges
    /\ \A under \in BOOLEAN : estimateRawScore(sc, under) > sc.prev

\* ---- C18
\* C18 (as the code has it): estimateRawScore is 100 for every appendable block
\* whose row count is the capacity, 0 for every sealed block with no change
\* node, and 0 for every appendable block below capacity that has no change
\* node and whose maxVisible is at or below ckpTs
ScoreFixedCases ==
    sc.on => \A under \in BOOLEAN :
        /\ sc.appendable /\ sc.rows = ScoreMaxRows => estimateRawScore(sc, under) = 100
        /\ ~sc.appendable /\ sc.changes = 0 => estimateRawScore(sc, under) = 0
        /\ (sc.appendable /\ sc.rows < ScoreMaxRows /\ sc.changes = 0
                /\ sc.maxVisible <= sc.ckpTs)
              => estimateRawScore(sc, under) = 0

\* a full appendable block without changes that is checkpointed, after a
\* calibration
ScoreFixedCasesWitness ==
    /\ sc.on /\ sc.op = "RunCalibration"
    /\ sc.appendable /\ sc.rows = ScoreMaxRows
    /\ sc.changes = 0 /\ sc.maxVisible <= sc.ckpTs
    /\ sc.nice > 0

\* C18 (as stated): 0 for every appendable block below capacity whose
\* maxVisible is at or below ckpTs
ScoreZeroWhenCheckpointed ==
    sc.on => \A under \in BOOLEAN :
        (sc.appendable /\ sc.rows < ScoreMaxRows /\ sc.maxVisible <= sc.ckpTs)
            => estimateRawScore(sc, under) = 0

\* ---- C19
\* the blocks outside the 0 and 100 cases
Scored(s) ==
    /\ ~(s.appendable /\ s.rows = ScoreMaxRows)
    /\ ~(s.changes = 0 /\ ~s.appendable)
    /\ ~(s.changes = 0 /\ s.appendable /\ s.maxVisible <= s.ckpTs)

\* 100 times piecewise(cnt / rows) times rows, by percentages
Piecewise100(cnt, rows) ==
    IF 1000 * cnt < 5 * rows THEN 1000 * cnt
    ELSE IF 100 * cnt < 10 * rows THEN 2000 * cnt
    ELSE 4000 * cnt

\* 100 * factor = Hundredfold(s) / (rows * columns)
Hundredfold(s) ==
    SumOver([c \in Cols |-> Piecewise100(s.upd[c], s.rows)], Cols)
        + 5000 * s.del * Cardinality(Cols)

\* C19 (as the code has it): outside the 0 and 100 cases estimateRawScore is
\* max(1, t), t being 100 * factor cut to its integer part (not rounded); when
\* 100 * factor is a whole number t may be that number less one
ScoreIsTruncated ==
    sc.on /\ Scored(sc) => \A under \in BOOLEAN :
        LET den == sc.rows * Cardinality(Cols)
            t == Hundredfold(sc) \div den
            raw == estimateRawScore(sc, under)
        IN  /\ raw >= 1
            /\ \/ raw = Max(1, t)
               \/ Hundredfold(sc) % den = 0 /\ raw = Max(1, t - 1)

\* one update in 201 rows, in the lowest band: 100 * factor is above 1.5 and the
\* score is 1
ScoreIsTruncatedWitness ==
    /\ sc.on /\ Scored(sc) /\ sc.op = "Update"
    /\ 2 * Hundredfold(sc) > 3 * sc.rows * Cardinality(Cols)
    /\ 1000 * SumOver(sc.upd, Cols) < 5 * sc.rows
    /\ \A under \in BOOLEAN : estimateRawScore(sc, under) = 1

\* C19 (as stated): max(1, round(100 * factor))
ScoreIsRounded ==
    sc.on /\ Scored(sc) => \A under \in BOOLEAN :
        LET den == sc.rows * Cardinality(Cols)
        IN  estimateRawScore(sc, under) = Max(1, (2 * Hundredfold(sc) + den) \div (2 * den))

\* ---- C20
\* an appendable block below capacity that holds committed rows and no change
\* node
OnlyCommittedAppends(s) ==
    /\ s.appendable /\ s.rows > 0 /\ s.rows < ScoreMaxRows
    /\ s.changes = 0 /\ s.maxVisible > 0

\* C20 (as the code has it): such a block that is not checkpointed up to its
\* maxVisible (as in S1, where no checkpoint was taken) has raw score 1 and
\* effective score 1 + nice
CommittedAppendsScoreOne ==
    sc.on /\ OnlyCommittedAppends(sc) /\ sc.maxVisible > sc.ckpTs
        => \A under \in BOOLEAN :
              /\ estimateRawScore(sc, under) = 1
              /\ EstimateScore(sc, under).score = 1 + sc.nice

\* S1: two committed rows, no checkpoint; EstimateScore answered 1, and after
\* calibrations more than 1
CommittedAppendsScoreOneWitness ==
    /\ sc.on /\ OnlyCommittedAppends(sc) /\ sc.rows = 2 /\ sc.ckpTs = 0
    /\ sc.op = "EstimateScore"
    /\ sc.nice > 0 /\ sc.score = 1 + sc.nice

\* C20 (as stated): raw score 0 and effective score 0
CommittedAppendsScoreZero ==
    sc.on /\ OnlyCommittedAppends(sc) /\ sc.ckpTs = 0
        => \A under \in BOOLEAN :
              /\ estimateRawScore(sc, under) = 0
              /\ EstimateScore(sc, under).score = 0

\* ---- C21
\* C21 (as the code has it): for a block that is not a full appendable block
\* EstimateScore answers the raw score plus nice when the raw score is not 0
\* and 0 when it is 0; for a full appendable block it answers 100 without nice,
\* and 0 when the block is dropped
EffectiveScore ==
    sc.on => \A under \in BOOLEAN :
        LET raw == estimateRawScore(sc, under)
            score == EstimateScore(sc, under).score
        IN  IF sc.appendable /\ sc.rows = ScoreMaxRows
            THEN score = IF sc.meta \in {"dropping", "dropped"} THEN 0 ELSE 100
            ELSE (raw # 0 => score = raw + sc.nice) /\ (raw = 0 => score = 0)

\* an estimate of a full appendable block that has aged
EffectiveScoreWitness ==
    /\ sc.on /\ sc.op = "EstimateScore" /\ sc.nice > 0
    /\ sc.appendable /\ sc.rows = ScoreMaxRows /\ sc.score = 100

\* C21 (as stated): the raw score plus nice whenever the raw score is not 0
EffectiveScoreAddsNice ==
    sc.on => \A under \in BOOLEAN :
        LET raw == estimateRawScore(sc, under)
            score == EstimateScore(sc, under).score
        IN  (raw # 0 => score = raw + sc.nice) /\ (raw = 0 => score = 0)

\* ---- C22
\* C22: nice is 0 after a calibration tick or a score estimate that found the
\* raw score 0
NiceZeroAfterZeroScore ==
    (sc.on /\ sc.op \in {"RunCalibration", "EstimateScore"}
        /\ \A under \in BOOLEAN : estimateRawScore(sc, under) = 0)
        => sc.nice = 0

\* ---- C30
\* C30: the checkpoint watermark never goes down
CheckpointMonotonic ==
    [][sc.on /\ sc'.on => sc'.ckpTs >= sc.ckpTs]_vars

\* ---- C23
\* C23: a call of BuildCompactionTaskFactory that read the entry neither dropped
\* nor in a transaction answers CompactBlock for a sealed block and for an
\* appendable block at capacity, CompactABlock for every other appendable block,
\* and in both cases the scopes are the id of the block and nothing else
FactoryChoice ==
    (sc.on /\ sc.res.called /\ ~sc.res.dropped /\ ~sc.res.inTxn)
        => /\ sc.res.factory = IF ~sc.appendable \/ sc.res.rows = ScoreMaxRows
                               THEN "CompactBlock" ELSE "CompactABlock"
           /\ sc.res.scopes = <<sc.id>>

\* the second block of the catalog, appendable and below capacity, got the
\* flush factory
FactoryChoiceWitness ==
    /\ sc.on /\ sc.res.called
    /\ sc.appendable /\ sc.res.rows < ScoreMaxRows
    /\ sc.res.factory = "CompactABlock"
    /\ sc.id = NumBlocks

\* ---- C24
\* C24 (as the code has it): for an appendable block at capacity, EstimateScore
\* answers 100 whatever nice is when the block is not dropped, and a call of
\* BuildCompactionTaskFactory that read the entry neither dropped nor in a
\* transaction answers the CompactBlock factory and the id of the block
FullBlockCompaction ==
    (sc.on /\ sc.appendable /\ sc.rows = ScoreMaxRows)
        => /\ sc.meta \notin {"dropping", "dropped"}
                => \A under \in BOOLEAN : EstimateScore(sc, under).score = 100
           /\ (sc.res.called /\ sc.res.rows = ScoreMaxRows
                    /\ ~sc.res.dropped /\ ~sc.res.inTxn)
                => sc.res.factory = "CompactBlock" /\ sc.res.scopes = <<sc.id>>

\* a block filled by appends that has aged, was handed to compaction and
\* scored 100
FullBlockCompactionWitness ==
    /\ sc.on /\ sc.appendable /\ sc.rows = ScoreMaxRows
    /\ sc.op = "EstimateScore" /\ sc.nice > 0 /\ sc.score = 100
    /\ sc.res.called /\ sc.res.rows = ScoreMaxRows /\ sc.res.factory = "CompactBlock"

\* C24 (as stated): the factory is CompactABlock
FullBlockFlush ==
    (sc.on /\ sc.appendable /\ sc.res.called /\ sc.res.rows = ScoreMaxRows
        /\ ~sc.res.dropped /\ ~sc.res.inTxn)
        => sc.res.factory = "CompactABlock" /\ sc.res.scopes = <<sc.id>>

\* ---- C25
\* C25: a call of BuildCompactionTaskFactory that read the entry dropped or in
\* a transaction answers no factory and no scope; what a call reads of the
\* entry is the entry as long as the call holds the read lock of meta; and the
\* lock is released when the call reads the row count and builds the factory
RefusalAfterUnlock ==
    sc.on =>
        /\ sc.res.called /\ (sc.res.dropped \/ sc.res.inTxn)
              => sc.res.factory = "" /\ sc.res.scopes = << >>
        /\ sc.bc.held
              => sc.bc.dropped = IsDroppedCommitted(sc) /\ sc.bc.inTxn = HasActiveTxn(sc)
        /\ sc.res.called => ~sc.res.held

\* a refusal of a block whose drop is not committed, that was committed since
RefusalAfterUnlockWitness ==
    /\ sc.on /\ sc.res.called
    /\ sc.res.inTxn /\ ~sc.res.dropped
    /\ sc.res.factory = ""
    /\ sc.meta = "dropped"

\* ---- C26
\* C26: for every transaction and row, Update of the hidden key column answers
\* UpdateHiddenKey with the block as it was, every chain and the delete chain
\* included, and makes no lock call; Update of any other column is
\* updateWithFineLock: the read lock of the handle first, and the write lock of
\* the chain of that column before a node is added
HiddenKeyRefused ==
    \A t \in Txns : Active(t) =>
        \A row \in Rows :
            /\ Update(blk, t, txns[t].start, row, HiddenCol, UpdVal(t))
                    = [blk |-> blk, err |-> "UpdateHiddenKey"]
            /\ \A q \in UpdateLocks(HiddenCol) : q.ev = << >>
            /\ \A c \in Cols :
                  /\ Update(blk, t, txns[t].start, row, c, UpdVal(t))
                        = updateWithFineLock(blk, t, txns[t].start, row, c, UpdVal(t))
                  /\ \A q \in UpdateLocks(c) :
                        /\ q.ev[1] = RLock(mvccLock)
                        /\ q.exit \in {"TryUpdateNodeLocked err", "ok"}
                              => q.ev[2] = Lock(chainLock(c))

\* a transaction that has written the block and was then refused the update of
\* the hidden key
HiddenKeyRefusedWitness ==
    \E t \in Txns :
        /\ Active(t)
        /\ txns[t].op = "Update" /\ txns[t].err = "UpdateHiddenKey"
        /\ txns[t].writes > 1
        /\ UpdatedCells(blk, t) # {}

\* ---- C27
\* C27: for every transaction, row and column, updateWithCoarseLock and
\* updateWithFineLock give the same answer and the same block
CoarseEqualsFine ==
    \A t \in Txns : Active(t) =>
        \A row \in Rows, c \in Cols :
            updateWithCoarseLock(blk, t, txns[t].start, row, c, UpdVal(t))
                = updateWithFineLock(blk, t, txns[t].start, row, c, UpdVal(t))

\* ---- C28
\* C28: for every transaction and range, RangeDelete adds to the delete chain
\* one node of the transaction that covers the range, and answers no error,
\* exactly when CheckNotDeleted and CheckNotUpdated both pass at the start
\* timestamp of the transaction; otherwise it answers the error of the first
\* test that failed and the block is as it was
RangeDeleteChecks ==
    \A t \in Txns : Active(t) =>
        \A start, end \in Rows : start <= end =>
            LET ts == txns[t].start
                r == RangeDelete(blk, t, ts, start, end)
                d == CheckNotDeleted(blk.mvcc, start, end, ts)
                u == CheckNotUpdated(blk.mvcc, start, end, ts)
                n == Len(blk.mvcc.deletes)
            IN  IF d = "" /\ u = ""
                THEN /\ r.err = ""
                     /\ Len(r.blk.mvcc.deletes) = n + 1
                     /\ SubSeq(r.blk.mvcc.deletes, 1, n) = blk.mvcc.deletes
                     /\ r.blk.mvcc.deletes[n + 1].txn = t
                     /\ r.blk.mvcc.deletes[n + 1].rows = start..end
                     /\ r.blk.mvcc.chains = blk.mvcc.chains
                ELSE /\ r.err = IF d # "" THEN d ELSE u
                     /\ r.blk = blk

\* a delete refused for an update of another transaction: no delete node is
\* in the chain
RangeDeleteChecksWitness ==
    \E t \in Txns :
        /\ Active(t)
        /\ txns[t].op = "RangeDelete" /\ txns[t].err = "WWConflict"
        /\ blk.mvcc.deletes = << >>
        /\ \E u \in Txns \ {t} : UpdatedCells(blk, u) # {}

\* ---- C29
\* C29: for every transaction, Update of a row that a delete committed at or
\* before the start timestamp of the transaction covers answers NotFound, and
\* the block, the chain of the column included, is as it was
UpdateDeletedRow ==
    \A t \in Txns : Active(t) =>
        \A row \in Rows, c \in Cols :
            IsDeletedLocked(blk.mvcc, row, txns[t].start)
                => Update(blk, t, txns[t].start, row, c, UpdVal(t))
                       = [blk |-> blk, err |-> "NotFound"]

\* an update answered NotFound, of a transaction that sees a deleted row and
\* has no update node
UpdateDeletedRowWitness ==
    \E t \in Txns :
        /\ Active(t)
        /\ txns[t].op = "Update" /\ txns[t].err = "NotFound"
        /\ \E row \in Rows : IsDeletedLocked(blk.mvcc, row, txns[t].start)
        /\ UpdatedCells(blk, t) = {}

\* ---- C31
\* C31: no step takes a block that IsAppendable reports not appendable to one
\* it reports appendable
ModeNeverRegresses == [][~IsAppendable(blk) => ~IsAppendable(blk')]_vars

\* a block at capacity whose last append was aborted
ModeNeverRegressesWitness ==
    /\ ~IsAppendable(blk)
    /\ Len(blk.node) = BlockMaxRows
    /\ \E i \in Indices(blk.mvcc.appends) :
          /\ IsAborted(blk.mvcc.appends[i])
          /\ blk.mvcc.appends[i].start + blk.mvcc.appends[i].len = BlockMaxRows

\* ---- C32
\* C32: when the Destroy that took the latch has returned, whether or not one
\* of its steps failed, every later release step was run: the column files
\* were unreferenced, the index was destroyed, the block file was closed and
\* destroyed
DestroyRunsEveryStep ==
    (cls.won # {} /\ \A t \in cls.won : cls.thr[t].op = "")
        => \A r \in {"colFiles", "index", "fileClose", "fileDestroy"} : cls.steps[r] = 1

\* ---- C33
\* C33: a block that was opened although a read of its file failed has the
\* maxVisible, the ckpTs and the chains of the on-disk state
OpenFailsOnIOError ==
    LET h == handles[1]
        disk == newBlock(file, mode, h.order)
    IN  (h.met /\ h.open)
            => /\ GetMaxVisibleTS(h.blk) = file.ts
               /\ h.blk.ckpTs = file.ts
               /\ h.blk.mvcc.chains = disk.mvcc.chains
               /\ h.blk.mvcc.deletes = disk.mvcc.deletes

\* ---- C34
\* C34: on an appendable block, GetValue of a transaction for a row that lies
\* beyond the appended rows, or in the append of another transaction that is
\* not committed at the start timestamp of the reader, answers NotFound and no
\* value
InvisibleIsNotFound ==
    \A t \in Txns : (Active(t) /\ blk.appendable) =>
        \A row \in Rows, c \in Cols :
            (\/ row >= Len(blk.node)
             \/ \E i \in Indices(blk.mvcc.appends) :
                    /\ blk.mvcc.appends[i].start <= row
                    /\ row < blk.mvcc.appends[i].start + blk.mvcc.appends[i].len
                    /\ blk.mvcc.appends[i].txn # t
                    /\ ~CommittedAt(blk.mvcc.appends[i], txns[t].start))
                => GetValue(blk, txns[t].start, row, c) = [v |-> Nil, err |-> "NotFound"]

\* ---- C35
\* C35: GetByFilter on a sealed block answers NotFound when index.Dedup met an
\* error other than PossibleDuplicate
FilterHidesIndexError ==
    (dedupCall.called /\ dedupCall.dedupErr # "") => dedupCall.err = "NotFound"

\* ---- C36
\* C36: GetByFilter on a sealed block, the index meeting no error, answers the
\* offset of the row of the sorted key column that holds the key when that row
\* is not deleted at the start timestamp of the reader, and NotFound in every
\* other case
FilterFindsLiveRow ==
    (dedupCall.called /\ dedupCall.dedupErr = "")
        => IF LiveRowsOf(blk, dedupCall.key, dedupCall.ts) # {}
           THEN /\ dedupCall.err = ""
                /\ dedupCall.offset \in LiveRowsOf(blk, dedupCall.key, dedupCall.ts)
           ELSE dedupCall.err = "NotFound"

\* a lookup of a key whose row, not the first of the column, was deleted
\* before the reader began
FilterFindsLiveRowWitness ==
    /\ dedupCall.called /\ dedupCall.dedupErr = ""
    /\ dedupCall.err = "NotFound"
    /\ \E r \in NodeRowSet(blk) :
          r > 0 /\ blk.node[r + 1] = dedupCall.key /\ IsDeletedLocked(blk.mvcc, r, dedupCall.ts)

\* ---- C37
\* C37: for every transaction, row and column, an Update that TryUpdateNodeLocked
\* rejects answers the conflict and leaves the chain of the column, and the
\* block, as they were; the node is added and removed inside the one write
\* lock of the chain that the call takes
RejectedUpdateLeavesNoTrace ==
    \A t \in Txns : Active(t) =>
        \A row \in Rows, c \in Cols :
            LET ts == txns[t].start
                try == TryUpdateNodeLocked(AddNodeLocked(blk.mvcc.chains[c], t, ts),
                                           row, UpdVal(t))
                r == Update(blk, t, ts, row, c, UpdVal(t))
            IN  /\ (CheckNotDeleted(blk.mvcc, row, row, ts) = "" /\ try.err # "")
                      => /\ r.err = try.err
                         /\ r.blk.mvcc.chains[c] = blk.mvcc.chains[c]
                         /\ r.blk = blk
                /\ \A q \in UpdateLocks(c) :
                      q.exit = "TryUpdateNodeLocked err"
                          => q.ev = <<RLock(mvccLock), Lock(chainLock(c)),
                                      Unlock(chainLock(c)), RUnlock(mvccLock)>>

\* an update rejected for the update of another transaction in the same chain,
\* no delete being in the way: the chain holds no node of the rejected one
RejectedUpdateLeavesNoTraceWitness ==
    \E t \in Txns :
        /\ Active(t)
        /\ txns[t].op = "Update" /\ txns[t].err = "WWConflict"
        /\ blk.mvcc.deletes = << >>
        /\ UpdatedCells(blk, t) = {}
        /\ \A c \in Cols : \A i \in Indices(blk.mvcc.chains[c]) : blk.mvcc.chains[c][i].txn # t
        /\ \E u \in Txns \ {t} : UpdatedCells(blk, u) # {}

\* ---- C38
\* the steps an open of the file runs, in the order of the code
ExpectedTrace ==
    IF file.ts = 0 THEN <<"ReadTS">>
    ELSE IF ~mode THEN <<"ReadTS", "ReplayIndex">>
    ELSE <<"ReadTS", "ReplayIndex", "append">>
            \o (IF DOMAIN file.updates = {} THEN << >> ELSE <<"updates">>)
            \o (IF file.deletes = {} THEN << >> ELSE <<"deletes">>)

\* C38 (as the code has it): an open that met no error ran, when the on-disk
\* timestamp is 0, no replay step; otherwise it rebuilt the PK index first and
\* then, on an appendable block only, installed the committed append node,
\* replayed the update masks and replayed the delete mask, in this order; the
\* block it gives is the block of newBlock
ReplayOrder ==
    LET h == handles[1]
    IN  (h.open /\ h.fault.at = "")
            => /\ h.trace = ExpectedTrace
               /\ h.blk = newBlock(file, mode, h.order)

\* an appendable block opened from a file with update masks and a delete
\* mask: the key of a deleted row, upserted by ReplayIndex, was removed from
\* the index by the replay of the deletes
ReplayOrderWitness ==
    LET h == handles[1]
    IN  /\ h.open /\ h.fault.at = "" /\ mode
        /\ h.trace = <<"ReadTS", "ReplayIndex", "append", "updates", "deletes">>
        /\ \E k \in Range(file.rows) : k \notin LiveKeysOnDisk /\ GetActiveRow(h.blk.index, k) = NoRow

\* C38 (as stated): with an on-disk timestamp above 0 the append node comes
\* first and the PK index is rebuilt last
ReplayIndexLast ==
    LET h == handles[1]
    IN  (h.open /\ h.fault.at = "" /\ file.ts > 0)
            => /\ h.trace[2] = "append"
               /\ h.trace[Len(h.trace)] = "ReplayIndex"

\* ---- C39
\* C39: on a reopened appendable block, the delete listener applied to a row
\* whose key is active at that row removes the key from the active map and
\* tombstones it; applied to a row whose key is active at another row (the key
\* was inserted again) it leaves the index as it was; and after the replayed
\* deletes were applied no key is active at a deleted row
ListenerKeepsReinserted ==
    \A h \in Handles : (handles[h].open /\ mode /\ file.ts > 0) =>
        LET b == handles[h].blk
            pre == ReplayIndex(allocBlock(file, TRUE, file.ts))
        IN  /\ \A row \in NodeRowSet(pre) :
                  LET k == pre.node[row + 1]
                      cur == GetActiveRow(pre.index, k)
                      post == ABlkApplyDelete(pre, 1, {row}, file.ts).index
                  IN  /\ cur = row => /\ GetActiveRow(post, k) = NoRow
                                      /\ HasDeleteFrom(post, k, file.ts)
                      /\ cur \notin {NoRow, row} => post = pre.index
            /\ \A k \in Keys :
                  GetActiveRow(b.index, k) # NoRow => GetActiveRow(b.index, k) \notin file.deletes

\* a reopened block whose file holds a deleted row and a later live row of the
\* same key: the key is still active, at the later row
ListenerKeepsReinsertedWitness ==
    \E h \in Handles :
        /\ handles[h].open /\ mode /\ file.ts > 0
        /\ \E i, j \in Indices(file.rows) :
              /\ i < j /\ file.rows[i] = file.rows[j]
              /\ (i - 1) \in file.deletes /\ (j - 1) \notin file.deletes
              /\ GetActiveRow(handles[h].blk.index, file.rows[j]) = j - 1

\* ---- C40
\* C40: for an appendable block at capacity EstimateScore answers 0 when the
\* catalog entry is dropped, committed or not, and leaves nice as it was,
\* there and when it answers for a block that is not dropped; what it reads of
\* the entry it reads between RLock and RUnlock of meta
DroppedFullScoresZero ==
    (sc.on /\ sc.appendable /\ sc.rows = ScoreMaxRows) =>
        /\ \A under \in BOOLEAN :
              LET r == EstimateScore(sc, under)
              IN  /\ sc.meta \in {"dropping", "dropped"} => r.score = 0
                  /\ r.blk.nice = sc.nice
                  /\ r.blk = sc
        /\ \A q \in EstimateScoreLocks :
              q.exit \in {"dropped", "full"} => q.ev = <<RLock(metaLock), RUnlock(metaLock)>>

\* a block at capacity that has aged, whose drop is not committed, scored 0
\* with nice left above 0
DroppedFullScoresZeroWitness ==
    /\ sc.on /\ sc.appendable /\ sc.rows = ScoreMaxRows
    /\ sc.meta = "dropping"
    /\ sc.op = "EstimateScore" /\ sc.score = 0
    /\ sc.nice > 0

====
